---- MODULE Spec2Model ----
(***************************************************************************)
(* Distributed (threshold) hashed ElGamal over a Schnorr group, after the  *)
(* Go package elgamal: RandomBits, GenerateSchnorrGroup, KeyGen, Enc, Dec  *)
(* and Recover.  Big integers are TLA+ integers; a nil *big.Int is NilInt; *)
(* byte slices are sequences over 0..255.                                  *)
(***************************************************************************)
EXTENDS Integers, Sequences, FiniteSets, TLC

VARIABLES
    pc,         \* position of the driver / of the running call
    args,       \* arguments of the call under way (a record)
    rbRes,      \* RandomBits: the returned (out, err) pair
    reads,      \* RandomBits, Enc: how often that call has asked the randomness source
    schnorr,    \* GenerateSchnorrGroup: the local `schnorr` being built
    sgErr,      \* GenerateSchnorrGroup: the returned error
    pub,        \* PublicKey
    priv,       \* PrivateKey
    shares,     \* []PrivateKeyShare
    msg,        \* the message handed to Enc
    ctxt,       \* Ciphertext
    decShares,  \* []DecryptionShare, in the order the Dec calls returned
    recovered,  \* the byte slice returned by Recover
    err         \* the error returned by the last KeyGen/Enc/Dec/Recover call

vars == <<pc, args, rbRes, reads, schnorr, sgErr, pub, priv, shares, msg,
          ctxt, decShares, recovered, err>>

(***************************************************************************)
(* Bounds of the model.                                                    *)
(***************************************************************************)
\* RandomBits is called with bits in -NegBits..MaxBits
NegBits == 9
MaxBits == 10
\* GenerateSchnorrGroup is called with pBits in 1..MaxPBits, qBits in 1..MaxQBits
MaxPBits == 11
MaxQBits == 3

(***************************************************************************)
(* Integer helpers (math/big on the non-negative integers used here).      *)
(***************************************************************************)
NilInt == 0 - 1

RECURSIVE Pow2(_)
Pow2(n) == IF n <= 0 THEN 1 ELSE 2 * Pow2(n - 1)

\* big.Int.BitLen: the length of the absolute value in bits; 0 for 0
RECURSIVE BitLen(_)
BitLen(x) == IF x <= 0 THEN 0 ELSE 1 + BitLen(x \div 2)

\* big.Int.Exp(x, y, m) for y >= 0, m > 0: x^y mod m, by square and multiply
RECURSIVE ModExp(_, _, _)
ModExp(x, y, m) ==
    IF y = 0 THEN 1 % m
    ELSE LET h == ModExp(x, y \div 2, m)
             s == (h * h) % m
         IN  IF y % 2 = 1 THEN (s * (x % m)) % m ELSE s

\* big.Int.ProbablyPrime(n): exact for operands below 2^64
ProbablyPrime(x) ==
    /\ x >= 2
    /\ {d \in 2..x : d * d <= x /\ x % d = 0} = {}

\* big.Int.SetBytes: the big-endian unsigned integer of a byte slice
RECURSIVE SetBytes(_)
SetBytes(b) ==
    IF Len(b) = 0 THEN 0
    ELSE 256 * SetBytes(SubSeq(b, 1, Len(b) - 1)) + b[Len(b)]

\* big.Int.Bytes: the minimal big-endian byte slice of x; empty for 0
RECURSIVE Bytes(_)
Bytes(x) == IF x <= 0 THEN << >> ELSE Append(Bytes(x \div 256), x % 256)

(***************************************************************************)
(* Byte operators of Go: &, |, ^ and >> on uint8 operands.                 *)
(***************************************************************************)
RECURSIVE AndN(_, _, _)
AndN(a, b, n) ==
    IF n = 0 THEN 0
    ELSE (a % 2) * (b % 2) + 2 * AndN(a \div 2, b \div 2, n - 1)

RECURSIVE OrN(_, _, _)
OrN(a, b, n) ==
    IF n = 0 THEN 0
    ELSE (IF a % 2 = 1 \/ b % 2 = 1 THEN 1 ELSE 0)
         + 2 * OrN(a \div 2, b \div 2, n - 1)

RECURSIVE XorN(_, _, _)
XorN(a, b, n) ==
    IF n = 0 THEN 0
    ELSE ((a + b) % 2) + 2 * XorN(a \div 2, b \div 2, n - 1)

ByteAnd(a, b) == AndN(a, b, 8)
ByteOr(a, b)  == OrN(a, b, 8)
\* a ^ b for all byte pairs, tabulated once
XorTable == [a \in 0..255 |-> [b \in 0..255 |-> XorN(a, b, 8)]]
ByteXor(a, b) == XorTable[a][b]
ShiftRight(a, k) == a \div Pow2(k)

Byte == 0..255
ZeroBytes(n) == [i \in 1..n |-> 0]

(***************************************************************************)
(* RandomBits (util.go).                                                   *)
(***************************************************************************)
\* int(math.Ceil(float64(bits) / 8)); rounds towards +infinity, so -7..0 give 0
CeilBytes(bits) == 0 - ((0 - bits) \div 8)

\* what rand.Read may leave in a slice of n bytes when it succeeds
RandRead(n) == [1..n -> Byte]

\* out[0] after lines 30-34: padding bits zeroed, then 0xC0 >> zeroLeadingBits set
ForceLeading(b0, zeroLeadingBits) ==
    ByteOr(ByteAnd(b0, ShiftRight(255, zeroLeadingBits)),
           ShiftRight(192, zeroLeadingBits))

\* RandomBits(bits) when the randomness source, if read, delivers rnd
\* (a slice of CeilBytes(bits) bytes) or fails (rngOk = FALSE).
\* err is "nil", "arg" (Bits must be > 2), "rng" (rand.Read failed) or
\* "panic" (make([]byte, n) with n < 0 is a run-time panic, nothing returned).
RandomBits(bits, rnd, rngOk) ==
    LET bytes == CeilBytes(bits) IN
    IF bytes < 0 THEN [out |-> << >>, err |-> "panic", reads |-> 0]
    ELSE IF bits <= 2 THEN [out |-> ZeroBytes(bytes), err |-> "arg", reads |-> 0]
    ELSE IF ~rngOk THEN [out |-> ZeroBytes(bytes), err |-> "rng", reads |-> 1]
    ELSE [out |-> [rnd EXCEPT ![1] = ForceLeading(rnd[1], 8 * bytes - bits)],
          err |-> "nil", reads |-> 1]

\* every result RandomBits(bits) can return with a working randomness source
RandomBitsResults(bits) ==
    IF bits <= 2 THEN {RandomBits(bits, << >>, TRUE)}
    ELSE {RandomBits(bits, rnd, TRUE) : rnd \in RandRead(CeilBytes(bits))}

\* RandomBitsResults, tabulated once for the bit counts GenerateSchnorrGroup uses
RandomBitsTable == [b \in 1..(MaxPBits - 1) |-> RandomBitsResults(b)]

(***************************************************************************)
(* Values of the variables a specification does not use.                   *)
(***************************************************************************)
NoArgs     == [op |-> "none"]
NoRbRes    == [out |-> << >>, err |-> "none", reads |-> 0]
ZeroGroup  == [P |-> NilInt, Q |-> NilInt, G |-> NilInt]
ZeroPub    == [P |-> NilInt, Q |-> NilInt, G |-> NilInt, Y |-> NilInt]
ZeroPriv   == [X |-> NilInt]
ZeroCtxt   == [R |-> NilInt, C |-> << >>]

IdleRandomBits == rbRes = NoRbRes /\ reads = 0
IdleSchnorr    == schnorr = ZeroGroup /\ sgErr = "none"
IdleProtocol   ==
    /\ pub = ZeroPub /\ priv = ZeroPriv /\ shares = << >> /\ msg = << >>
    /\ ctxt = ZeroCtxt /\ decShares = << >> /\ recovered = << >> /\ err = "none"

protocolVars == <<pub, priv, shares, msg, ctxt, decShares, recovered, err>>

(***************************************************************************)
(* SpecRandomBits: one call RandomBits(bits), bits in -NegBits..MaxBits.   *)
(***************************************************************************)
InitRandomBits ==
    /\ pc = "rb_call"
    /\ args \in {[op |-> "RandomBits", bits |-> b] : b \in (0 - NegBits)..MaxBits}
    /\ IdleRandomBits /\ IdleSchnorr /\ IdleProtocol

\* the call: it returns (pc = "rb_done") or panics (pc = "rb_panic")
RandomBitsCall ==
    /\ pc = "rb_call"
    /\ \E rngOk \in BOOLEAN :
         \E rnd \in (IF args.bits > 2 /\ rngOk THEN RandRead(CeilBytes(args.bits))
                     ELSE {<< >>}) :
            LET res == RandomBits(args.bits, rnd, rngOk) IN
            /\ rbRes' = res
            /\ reads' = reads + res.reads
            /\ pc' = IF res.err = "panic" THEN "rb_panic" ELSE "rb_done"
    /\ UNCHANGED <<args, schnorr, sgErr, protocolVars>>

NextRandomBits == RandomBitsCall

SpecRandomBits == InitRandomBits /\ [][NextRandomBits]_vars

\* C6: for every bits > 2 RandomBits(bits) returns exactly ceil(bits/8) bytes
\* whose big-endian value v has no bit above the requested count and has the
\* two most significant requested bits set: 3*2^(bits-2) <= v < 2^bits.
C6_RandomBitsShape ==
    (pc = "rb_done" /\ args.bits > 2 /\ rbRes.err = "nil") =>
        LET v == SetBytes(rbRes.out) IN
        /\ Len(rbRes.out) = (args.bits + 7) \div 8
        /\ v < Pow2(args.bits)
        /\ 3 * Pow2(args.bits - 2) <= v

\* C9: for every bits <= 2 (0 and negative values included) RandomBits(bits)
\* returns an error as a value, never a run-time fault, and does not read the
\* randomness source.
C9_RandomBitsArgCheck ==
    (pc /= "rb_call" /\ args.bits <= 2) =>
        /\ pc = "rb_done"
        /\ rbRes.err = "arg"
        /\ reads = 0

(***************************************************************************)
(* GenerateSchnorrGroup (schnorr.go), one action per loop iteration.       *)
(***************************************************************************)
\* rand.Prime(rand.Reader, bits), bits >= 2: a prime of exactly `bits` bits
\* whose two most significant bits are set
PrimeResults(bits) ==
    {q \in (3 * Pow2(bits - 2))..(Pow2(bits) - 1) : ProbablyPrime(q)}

InitSchnorr ==
    /\ pc = "sg_start"
    /\ args \in {[op |-> "GenerateSchnorrGroup", pBits |-> p, qBits |-> q] :
                    p \in 1..MaxPBits, q \in 1..MaxQBits}
    /\ IdleRandomBits /\ IdleSchnorr /\ IdleProtocol

\* lines 28-42: the argument check, the prime Q, P := 0
SG_Begin ==
    /\ pc = "sg_start"
    /\ IF args.qBits >= args.pBits
       THEN /\ schnorr' = ZeroGroup
            /\ sgErr' = "qbits must be < pbits"
            /\ pc' = "sg_done"
       ELSE IF args.qBits < 2
       THEN \* rand.Prime refuses sizes below 2 bits and returns (nil, err)
            /\ schnorr' = ZeroGroup
            /\ sgErr' = "prime size must be at least 2-bit"
            /\ pc' = "sg_done"
       ELSE \/ \E q \in PrimeResults(args.qBits) :
                 /\ schnorr' = [P |-> 0, Q |-> q, G |-> NilInt]
                 /\ sgErr' = "none"
                 /\ pc' = "sg_p"
            \/ \* the randomness source fails inside rand.Prime
               /\ schnorr' = ZeroGroup
               /\ sgErr' = "rng"
               /\ pc' = "sg_done"
    /\ UNCHANGED <<args, rbRes, reads, protocolVars>>

\* lines 43-60: one iteration of the search for P = r*Q + 1
SG_LoopP ==
    /\ pc = "sg_p"
    /\ ~ProbablyPrime(schnorr.P)
    /\ LET rBits == args.pBits - args.qBits IN
       \/ \E res \in RandomBitsTable[rBits] :
            IF res.err /= "nil"
            THEN /\ sgErr' = (IF res.err = "arg" THEN "Bits must be > 2" ELSE res.err)
                 /\ pc' = "sg_done"
                 /\ UNCHANGED schnorr
            ELSE /\ schnorr' = [schnorr EXCEPT !.P = SetBytes(res.out) * schnorr.Q + 1]
                 /\ UNCHANGED <<sgErr, pc>>
       \/ \* the randomness source fails inside RandomBits
          /\ rBits > 2
          /\ sgErr' = "rng"
          /\ pc' = "sg_done"
          /\ UNCHANGED schnorr
    /\ UNCHANGED <<args, rbRes, reads, protocolVars>>

\* lines 43 and 63: the loop ends on a prime P; G := 1
SG_FoundP ==
    /\ pc = "sg_p"
    /\ ProbablyPrime(schnorr.P)
    /\ schnorr' = [schnorr EXCEPT !.G = 1]
    /\ pc' = "sg_g"
    /\ UNCHANGED <<args, rbRes, reads, sgErr, protocolVars>>

\* a slip in the exponent: h^Q instead of h^((P-1)/Q)
GeneratorForWrongExp(h, P, Q) == ModExp(h, Q, P)

\* G of lines 76-80 for the sampled h
GeneratorFor(h, P, Q) == ModExp(h, (P - 1) \div Q, P)

\* lines 64-87: one iteration of the search for the generator
SG_LoopG ==
    /\ pc = "sg_g"
    /\ \/ \E h \in 2..(schnorr.P - 1) :
            LET g == GeneratorFor(h, schnorr.P, schnorr.Q) IN
            /\ schnorr' = [schnorr EXCEPT !.G = g]
            /\ IF g /= 1
               THEN sgErr' = "nil" /\ pc' = "sg_done"
               ELSE UNCHANGED <<sgErr, pc>>
       \/ \* the randomness source fails inside rand.Int
          /\ sgErr' = "rng"
          /\ pc' = "sg_done"
          /\ UNCHANGED schnorr
    /\ UNCHANGED <<args, rbRes, reads, protocolVars>>

NextSchnorr == SG_Begin \/ SG_LoopP \/ SG_FoundP \/ SG_LoopG

SpecSchnorr == InitSchnorr /\ [][NextSchnorr]_vars

\* a group has been returned without error
SchnorrReturned == pc = "sg_done" /\ sgErr = "nil"

\* C4: every group (P, Q, G) returned without error has P and Q prime,
\* P mod Q = 1, G^Q mod P = 1, G mod P /= 1, G /= 0, and G is h^((P-1)/Q) mod P
\* for some h in [2, P).
C4_SchnorrGroupInvariant ==
    SchnorrReturned =>
        /\ ProbablyPrime(schnorr.P)
        /\ ProbablyPrime(schnorr.Q)
        /\ schnorr.P % schnorr.Q = 1
        /\ ModExp(schnorr.G, schnorr.Q, schnorr.P) = 1
        /\ schnorr.G % schnorr.P /= 1
        /\ schnorr.G /= 0
        /\ \E h \in 2..(schnorr.P - 1) :
              schnorr.G = ModExp(h, (schnorr.P - 1) \div schnorr.Q, schnorr.P)

\* a group of the order-7 subgroup modulo 43 has been returned
C4_Witness ==
    /\ SchnorrReturned
    /\ schnorr.Q = 7 /\ schnorr.P = 43 /\ schnorr.G = 4

\* C5: whenever a group is returned, bitlength(P) = pBits and
\* bitlength(Q) = qBits; every candidate R*Q + 1 formed in the search has
\* exactly pBits bits.
C5_ExactBitLengths ==
    /\ SchnorrReturned =>
          /\ BitLen(schnorr.P) = args.pBits
          /\ BitLen(schnorr.Q) = args.qBits
    /\ (pc \in {"sg_p", "sg_g"} /\ schnorr.P > 0) => BitLen(schnorr.P) = args.pBits

\* C10: GenerateSchnorrGroup returns the invalid-argument error whenever
\* qBits >= pBits, and with qBits < pBits (and a working randomness source) it
\* returns no argument error.
C10_OnlyPrecondition ==
    (pc = "sg_done" /\ sgErr /= "rng") =>
        /\ args.qBits >= args.pBits => sgErr = "qbits must be < pbits"
        /\ args.qBits < args.pBits  => sgErr = "nil"

(***************************************************************************)
(* The finite-field and secret-sharing libraries the package calls         *)
(* (github.com/lavode/secret-sharing: gf, secretshare).                    *)
(***************************************************************************)
\* gf.NewGF(p) succeeds on a prime modulus
NewGFOk(p) == ProbablyPrime(p)

\* GF.Exp(a, b) and GF.Mul(a, b) of the field modulo p
GFExp(a, b, p) == ModExp(a, b, p)
GFMul(a, b, p) == (a * b) % p

\* what the field library answers when asked for the inverse of 0 (duplicate
\* interpolation nodes): some element of the field, the same throughout a run
InvOfZero(q) == IF "inv0" \in DOMAIN args THEN args.inv0 % q ELSE 0

\* the inverse of a in the field modulo q
GFInv(a, q) ==
    IF a % q = 0 THEN InvOfZero(q)
    ELSE CHOOSE b \in 1..(q - 1) : (a * b) % q = 1

\* the value at x of the polynomial with coefficients c[1] + c[2] x + ...
RECURSIVE PolyEval(_, _, _)
PolyEval(c, x, q) ==
    IF Len(c) = 0 THEN 0
    ELSE (c[1] + x * PolyEval(Tail(c), x, q)) % q

\* secretshare.TOutOfN(secret, t, n, field): the n evaluations at 1..n of a
\* polynomial of degree t-1 with constant term `secret`; coeffs are the t-1
\* coefficients the library samples from the field
TOutOfN(secret, t, n, q, coeffs) ==
    [i \in 1..n |-> [ID |-> i, Value |-> PolyEval(<<secret>> \o coeffs, i, q)]]

\* gf.BasePolynomial(i, xs, field): the Lagrange basis coefficient at 0 of
\* node xs[i] among the nodes xs (i counted from 1 here)
RECURSIVE BaseProduct(_, _, _, _)
BaseProduct(i, xs, q, j) ==
    IF j > Len(xs) THEN 1 % q
    ELSE IF j = i THEN BaseProduct(i, xs, q, j + 1)
    ELSE LET term == ((xs[j] % q) * GFInv((xs[j] - xs[i]) % q, q)) % q
         IN  (term * BaseProduct(i, xs, q, j + 1)) % q

BasePolynomial(i, xs, q) == BaseProduct(i, xs, q, 1)

\* secretshare.TOutOfNRecover(shares, field): interpolation at 0
RECURSIVE RecoverSum(_, _, _)
RecoverSum(sh, q, i) ==
    IF i > Len(sh) THEN 0
    ELSE (sh[i].Value * BasePolynomial(i, [k \in 1..Len(sh) |-> sh[k].ID], q)
          + RecoverSum(sh, q, i + 1)) % q

TOutOfNRecover(sh, q) == RecoverSum(sh, q, 1)

(***************************************************************************)
(* sha512.Sum512 on the byte strings the bounded groups produce: the       *)
(* digests of the empty string and of the one-byte strings 0..127.         *)
(***************************************************************************)
Sum512Empty ==
    <<207, 131, 225, 53, 126, 239, 184, 189, 241, 84, 40, 80, 214, 109, 128, 7, 214, 32, 228, 5, 11, 87, 21, 220, 131, 244, 169, 33, 211, 108, 233, 206, 71, 208, 209, 60, 93, 133, 242, 176, 255, 131, 24, 210, 135, 126, 236, 47, 99, 185, 49, 189, 71, 65, 122, 129, 165, 56, 50, 122, 249, 39, 218, 62>>

Sum512OfByte ==
    <<
    <<184, 36, 77, 2, 137, 129, 214, 147, 175, 123, 69, 106, 248, 239, 164, 202, 214, 61, 40, 46, 25, 255, 20, 148, 44, 36, 110, 80, 217, 53, 29, 34, 112, 74, 128, 42, 113, 195, 88, 11, 99, 112, 222, 76, 235, 41, 60, 50, 74, 132, 35, 52, 37, 87, 212, 229, 195, 132, 56, 240, 227, 105, 16, 238>>,
    <<123, 84, 182, 104, 54, 193, 251, 221, 19, 210, 68, 29, 158, 20, 52, 220, 98, 202, 103, 127, 182, 143, 95, 230, 106, 70, 75, 170, 222, 205, 189, 0, 87, 111, 141, 107, 90, 195, 188, 200, 8, 68, 183, 213, 11, 28, 198, 96, 52, 68, 187, 231, 207, 207, 143, 192, 170, 30, 227, 198, 54, 217, 227, 57>>,
    <<250, 184, 72, 201, 182, 87, 168, 83, 238, 55, 192, 156, 191, 221, 20, 157, 11, 56, 7, 177, 145, 221, 233, 182, 35, 204, 217, 82, 129, 221, 24, 112, 91, 72, 200, 155, 21, 3, 144, 56, 69, 187, 165, 117, 57, 69, 53, 31, 230, 180, 84, 133, 39, 96, 247, 53, 41, 207, 1, 202, 143, 105, 220, 202>>,
    <<228, 91, 245, 129, 125, 223, 148, 170, 47, 122, 64, 112, 113, 240, 238, 220, 107, 235, 152, 247, 104, 180, 205, 51, 209, 23, 109, 68, 209, 86, 58, 69, 165, 215, 33, 34, 144, 235, 118, 112, 198, 120, 107, 19, 89, 26, 237, 172, 134, 71, 137, 147, 137, 94, 139, 36, 230, 18, 1, 74, 186, 166, 186, 4>>,
    <<181, 184, 199, 37, 80, 123, 91, 19, 21, 142, 2, 13, 150, 254, 76, 251, 246, 215, 116, 224, 145, 97, 226, 181, 153, 184, 243, 90, 227, 31, 22, 227, 149, 130, 94, 222, 248, 170, 105, 173, 48, 78, 248, 15, 237, 155, 170, 5, 128, 210, 71, 205, 132, 229, 122, 42, 226, 57, 174, 201, 13, 45, 88, 105>>,
    <<9, 95, 62, 68, 138, 85, 250, 44, 60, 112, 73, 192, 29, 207, 18, 251, 135, 196, 68, 119, 207, 54, 121, 147, 19, 44, 167, 76, 146, 162, 122, 30, 170, 163, 65, 194, 253, 87, 36, 234, 68, 156, 236, 39, 40, 84, 126, 128, 237, 187, 126, 96, 41, 137, 28, 95, 253, 21, 126, 40, 62, 187, 65, 229>>,
    <<88, 21, 8, 125, 249, 91, 124, 4, 252, 243, 232, 156, 60, 190, 232, 252, 16, 189, 21, 164, 178, 105, 242, 145, 151, 9, 22, 125, 50, 3, 132, 177, 92, 65, 182, 183, 94, 151, 138, 176, 212, 102, 139, 108, 119, 170, 127, 28, 174, 36, 63, 105, 181, 79, 201, 112, 188, 163, 114, 96, 128, 244, 149, 53>>,
    <<54, 93, 17, 161, 223, 230, 16, 182, 14, 250, 153, 97, 54, 211, 122, 184, 175, 210, 113, 91, 140, 107, 194, 133, 13, 197, 230, 0, 91, 112, 43, 185, 245, 155, 15, 48, 110, 203, 44, 67, 238, 68, 196, 41, 150, 125, 69, 132, 53, 36, 235, 47, 124, 22, 170, 185, 189, 225, 66, 238, 38, 139, 81, 198>>,
    <<246, 90, 107, 248, 244, 11, 1, 184, 119, 87, 205, 229, 52, 131, 208, 87, 225, 68, 47, 59, 214, 125, 73, 93, 32, 71, 183, 247, 195, 41, 224, 87, 46, 136, 193, 136, 8, 66, 103, 6, 175, 59, 141, 242, 145, 92, 163, 213, 39, 173, 73, 89, 127, 33, 28, 248, 158, 71, 90, 7, 201, 1, 49, 43>>,
    <<242, 123, 91, 248, 211, 94, 162, 187, 187, 108, 15, 159, 239, 137, 216, 131, 65, 91, 90, 219, 214, 168, 64, 48, 203, 31, 53, 230, 166, 192, 38, 230, 92, 96, 251, 153, 245, 98, 247, 235, 159, 119, 243, 222, 197, 0, 20, 115, 68, 29, 44, 85, 134, 181, 77, 155, 153, 156, 244, 189, 121, 14, 76, 86>>,
    <<190, 104, 136, 56, 202, 134, 134, 229, 201, 6, 137, 191, 42, 181, 133, 206, 241, 19, 124, 153, 155, 72, 199, 11, 146, 246, 122, 92, 52, 220, 21, 105, 123, 93, 17, 201, 130, 237, 109, 113, 190, 30, 30, 127, 123, 78, 7, 51, 136, 74, 169, 124, 63, 122, 51, 154, 142, 208, 53, 119, 207, 116, 190, 9>>,
    <<82, 124, 255, 43, 111, 223, 188, 15, 84, 254, 9, 43, 23, 214, 216, 199, 226, 37, 0, 36, 38, 53, 250, 86, 152, 30, 133, 166, 77, 166, 206, 138, 18, 163, 166, 108, 246, 159, 212, 143, 88, 139, 203, 169, 186, 209, 65, 184, 227, 81, 160, 205, 212, 146, 90, 229, 114, 137, 147, 62, 236, 31, 193, 83>>,
    <<42, 179, 154, 100, 30, 87, 68, 164, 212, 158, 68, 51, 216, 40, 30, 150, 8, 25, 42, 68, 137, 146, 54, 73, 2, 219, 160, 233, 190, 159, 163, 185, 179, 136, 56, 188, 78, 100, 147, 148, 124, 210, 199, 198, 21, 184, 41, 184, 181, 80, 171, 153, 217, 96, 52, 110, 112, 133, 58, 92, 131, 159, 125, 185>>,
    <<159, 113, 2, 204, 243, 123, 4, 42, 240, 162, 249, 216, 79, 242, 88, 128, 123, 32, 92, 92, 13, 153, 218, 124, 205, 68, 206, 14, 126, 228, 210, 116, 101, 193, 159, 102, 25, 138, 42, 254, 246, 153, 224, 219, 56, 181, 223, 202, 4, 55, 223, 102, 231, 249, 20, 6, 18, 41, 105, 48, 164, 136, 27, 44>>,
    <<62, 71, 136, 123, 200, 24, 136, 46, 161, 18, 58, 17, 113, 128, 177, 247, 98, 169, 135, 5, 133, 2, 211, 179, 114, 160, 230, 35, 51, 50, 116, 51, 235, 83, 181, 187, 77, 151, 9, 242, 80, 95, 109, 243, 188, 125, 82, 209, 131, 57, 123, 138, 181, 27, 101, 139, 1, 12, 200, 112, 84, 249, 21, 238>>,
    <<197, 167, 235, 47, 189, 105, 99, 214, 97, 216, 5, 67, 128, 122, 169, 70, 27, 222, 200, 88, 223, 201, 247, 93, 138, 226, 239, 5, 14, 16, 166, 149, 100, 105, 242, 203, 86, 225, 106, 98, 33, 154, 233, 67, 232, 188, 100, 210, 139, 40, 238, 77, 101, 209, 94, 110, 77, 221, 149, 182, 38, 32, 153, 99>>,
    <<220, 63, 238, 28, 41, 254, 68, 31, 17, 0, 132, 100, 193, 141, 7, 77, 201, 135, 219, 224, 40, 49, 164, 224, 108, 28, 71, 105, 228, 191, 206, 94, 120, 229, 15, 19, 215, 134, 56, 154, 87, 122, 251, 37, 99, 227, 6, 181, 208, 121, 24, 126, 78, 204, 185, 98, 225, 42, 95, 108, 22, 246, 42, 46>>,
    <<77, 171, 36, 158, 62, 241, 242, 125, 50, 63, 234, 109, 68, 61, 214, 242, 171, 54, 85, 226, 180, 250, 241, 7, 140, 122, 214, 175, 131, 161, 143, 46, 251, 190, 216, 139, 42, 99, 177, 175, 255, 61, 25, 111, 139, 151, 7, 242, 140, 250, 140, 192, 133, 121, 219, 84, 40, 210, 165, 220, 28, 92, 157, 99>>,
    <<239, 78, 160, 173, 67, 99, 53, 135, 217, 207, 10, 62, 87, 146, 152, 236, 57, 21, 42, 46, 45, 24, 41, 0, 203, 195, 38, 182, 178, 249, 70, 99, 104, 153, 41, 144, 233, 92, 149, 149, 79, 238, 245, 156, 188, 187, 128, 206, 252, 30, 87, 241, 219, 33, 30, 200, 225, 64, 109, 13, 184, 195, 172, 230>>,
    <<250, 111, 105, 3, 25, 89, 72, 194, 71, 137, 82, 195, 84, 194, 246, 56, 100, 157, 144, 66, 248, 118, 23, 29, 150, 115, 104, 1, 86, 21, 44, 94, 210, 173, 32, 132, 0, 41, 223, 185, 148, 205, 113, 100, 135, 8, 192, 212, 0, 135, 247, 196, 57, 12, 121, 37, 208, 218, 112, 226, 113, 85, 80, 181>>,
    <<222, 157, 172, 57, 123, 25, 74, 187, 225, 255, 92, 247, 43, 99, 16, 182, 152, 40, 224, 77, 233, 139, 251, 9, 228, 89, 65, 61, 225, 36, 71, 68, 199, 221, 133, 72, 48, 143, 54, 113, 49, 207, 126, 136, 242, 150, 86, 115, 123, 235, 207, 125, 243, 113, 199, 248, 54, 199, 61, 152, 151, 191, 217, 32>>,
    <<6, 15, 2, 154, 20, 12, 93, 113, 206, 229, 56, 14, 11, 105, 88, 89, 122, 113, 143, 135, 60, 246, 213, 94, 215, 30, 148, 136, 125, 125, 143, 30, 187, 246, 104, 162, 205, 228, 116, 141, 16, 170, 165, 201, 18, 82, 163, 223, 247, 56, 233, 20, 3, 32, 62, 210, 192, 48, 205, 26, 227, 124, 183, 123>>,
    <<188, 29, 122, 24, 19, 10, 82, 140, 98, 145, 47, 218, 2, 31, 156, 215, 68, 82, 173, 94, 201, 56, 96, 8, 239, 95, 88, 13, 197, 194, 102, 92, 90, 62, 235, 185, 85, 21, 21, 234, 179, 77, 134, 170, 241, 193, 163, 57, 59, 20, 136, 134, 8, 8, 197, 77, 5, 199, 234, 244, 94, 108, 233, 225>>,
    <<38, 237, 10, 11, 165, 164, 72, 99, 217, 188, 218, 104, 78, 66, 177, 97, 241, 144, 181, 48, 199, 231, 102, 152, 26, 81, 192, 193, 232, 141, 117, 29, 27, 175, 241, 121, 168, 40, 205, 246, 188, 62, 84, 171, 95, 6, 190, 206, 109, 104, 233, 89, 139, 198, 188, 115, 14, 92, 6, 16, 12, 213, 48, 13>>,
    <<147, 240, 84, 2, 144, 236, 123, 206, 196, 160, 223, 244, 242, 141, 240, 113, 210, 144, 245, 68, 121, 254, 54, 97, 220, 158, 237, 141, 180, 33, 115, 108, 180, 161, 134, 30, 188, 91, 224, 229, 198, 10, 152, 28, 24, 188, 76, 53, 246, 70, 79, 76, 149, 142, 215, 241, 35, 6, 138, 44, 18, 83, 50, 72>>,
    <<178, 117, 194, 208, 227, 155, 208, 222, 32, 74, 48, 163, 221, 17, 187, 68, 111, 173, 231, 251, 123, 127, 226, 122, 25, 205, 72, 84, 188, 151, 215, 180, 9, 27, 145, 134, 232, 143, 73, 191, 29, 239, 129, 61, 140, 171, 68, 98, 58, 65, 223, 233, 104, 102, 231, 106, 144, 112, 11, 164, 97, 82, 202, 123>>,
    <<232, 208, 241, 25, 242, 196, 39, 145, 193, 182, 17, 80, 246, 140, 195, 5, 180, 5, 79, 33, 24, 159, 121, 64, 72, 47, 10, 237, 188, 178, 134, 5, 196, 166, 170, 128, 84, 14, 57, 238, 244, 233, 41, 116, 106, 194, 16, 19, 201, 70, 98, 200, 104, 23, 123, 10, 211, 153, 218, 179, 125, 209, 188, 83>>,
    <<26, 246, 161, 38, 149, 149, 209, 189, 144, 188, 143, 229, 57, 241, 117, 216, 201, 172, 150, 151, 49, 177, 109, 102, 251, 140, 245, 244, 142, 55, 225, 224, 7, 7, 116, 151, 37, 18, 65, 13, 10, 65, 1, 81, 80, 130, 242, 147, 35, 239, 152, 150, 188, 1, 77, 69, 158, 173, 51, 51, 113, 134, 33, 74>>,
    <<196, 181, 29, 166, 144, 198, 100, 32, 155, 59, 254, 135, 90, 230, 13, 120, 128, 251, 60, 65, 5, 247, 242, 189, 54, 19, 65, 241, 50, 189, 249, 189, 129, 176, 247, 127, 39, 18, 232, 70, 197, 18, 154, 23, 251, 234, 111, 241, 22, 86, 11, 76, 239, 237, 12, 154, 180, 42, 223, 110, 123, 70, 186, 20>>,
    <<116, 84, 95, 123, 242, 176, 188, 40, 82, 222, 183, 30, 54, 57, 46, 161, 192, 243, 48, 224, 180, 0, 86, 215, 133, 137, 140, 22, 174, 113, 174, 133, 81, 248, 77, 210, 130, 106, 114, 204, 131, 248, 232, 223, 53, 66, 254, 27, 88, 57, 97, 173, 54, 157, 248, 222, 27, 205, 36, 37, 151, 171, 193, 40>>,
    <<38, 139, 255, 168, 23, 34, 182, 198, 197, 43, 183, 36, 137, 122, 2, 153, 253, 92, 148, 222, 22, 132, 55, 207, 250, 229, 66, 128, 128, 143, 0, 212, 211, 55, 74, 14, 38, 118, 211, 60, 89, 85, 146, 71, 197, 207, 102, 117, 46, 124, 146, 251, 4, 115, 148, 189, 228, 44, 70, 114, 50, 91, 188, 228>>,
    <<79, 243, 171, 201, 0, 0, 102, 221, 118, 138, 83, 221, 30, 61, 105, 191, 133, 204, 203, 218, 19, 32, 135, 240, 134, 126, 145, 15, 64, 48, 85, 0, 246, 162, 179, 151, 57, 248, 1, 213, 25, 91, 10, 125, 231, 157, 167, 30, 8, 98, 119, 235, 233, 84, 12, 91, 35, 75, 89, 75, 29, 238, 222, 222>>,
    <<249, 13, 221, 119, 228, 0, 223, 230, 163, 252, 244, 121, 176, 11, 30, 226, 158, 112, 21, 197, 187, 140, 215, 15, 95, 21, 180, 136, 108, 195, 57, 39, 95, 245, 83, 252, 138, 5, 63, 141, 220, 115, 36, 244, 81, 104, 207, 250, 248, 31, 140, 58, 201, 57, 150, 246, 83, 110, 239, 56, 229, 228, 7, 104>>,
    <<56, 49, 166, 166, 21, 94, 80, 157, 238, 89, 167, 244, 81, 235, 53, 50, 77, 143, 143, 45, 246, 227, 112, 136, 148, 116, 15, 152, 253, 238, 35, 136, 159, 77, 229, 173, 176, 197, 1, 13, 251, 85, 92, 218, 119, 200, 171, 93, 201, 2, 9, 76, 82, 222, 50, 120, 243, 90, 117, 235, 194, 95, 9, 58>>,
    <<0, 218, 75, 3, 207, 150, 190, 5, 128, 143, 191, 95, 255, 65, 33, 203, 31, 14, 116, 159, 132, 107, 101, 162, 16, 57, 173, 49, 36, 161, 90, 99, 58, 72, 103, 11, 162, 119, 45, 126, 29, 175, 11, 170, 65, 216, 7, 27, 122, 14, 70, 64, 15, 17, 3, 115, 214, 194, 44, 68, 225, 125, 136, 217>>,
    <<211, 105, 40, 106, 200, 107, 96, 250, 146, 15, 100, 100, 210, 107, 236, 172, 217, 244, 200, 189, 136, 91, 120, 52, 7, 205, 202, 167, 79, 175, 212, 90, 139, 86, 179, 100, 182, 63, 98, 86, 195, 206, 239, 38, 39, 138, 28, 119, 153, 212, 36, 58, 129, 73, 181, 237, 229, 206, 29, 137, 11, 92, 114, 54>>,
    <<132, 12, 252, 98, 133, 135, 132, 100, 195, 108, 154, 168, 25, 216, 55, 55, 41, 237, 161, 76, 62, 112, 31, 211, 122, 254, 193, 213, 186, 162, 137, 57, 68, 198, 150, 252, 64, 23, 165, 32, 171, 251, 177, 52, 123, 98, 230, 184, 88, 33, 29, 62, 167, 199, 221, 38, 49, 150, 1, 253, 225, 25, 195, 180>>,
    <<145, 151, 42, 163, 64, 85, 188, 162, 13, 219, 100, 59, 159, 129, 122, 84, 126, 93, 74, 212, 155, 127, 241, 106, 127, 130, 138, 141, 114, 196, 203, 74, 86, 121, 207, 244, 218, 0, 249, 251, 107, 40, 51, 222, 126, 179, 72, 11, 59, 74, 124, 124, 123, 133, 163, 144, 40, 222, 85, 172, 175, 45, 136, 18>>,
    <<15, 74, 216, 120, 103, 243, 122, 83, 140, 170, 103, 111, 74, 48, 190, 56, 141, 187, 245, 71, 91, 155, 90, 223, 45, 229, 168, 227, 232, 130, 37, 247, 181, 193, 14, 37, 5, 133, 34, 62, 17, 222, 164, 135, 185, 31, 90, 138, 95, 197, 58, 29, 183, 217, 69, 19, 193, 70, 246, 24, 128, 213, 22, 240>>,
    <<41, 74, 203, 84, 108, 181, 236, 167, 169, 20, 208, 206, 213, 3, 253, 174, 137, 249, 152, 68, 140, 84, 13, 131, 183, 73, 226, 67, 158, 197, 168, 215, 20, 63, 226, 237, 29, 99, 238, 134, 159, 209, 142, 101, 30, 115, 126, 83, 187, 252, 28, 204, 219, 226, 136, 229, 177, 160, 54, 193, 79, 95, 158, 132>>,
    <<45, 166, 251, 85, 32, 143, 129, 101, 161, 112, 241, 135, 241, 223, 202, 254, 226, 80, 159, 3, 228, 113, 86, 120, 96, 16, 120, 245, 46, 52, 125, 190, 150, 250, 14, 113, 71, 150, 14, 30, 173, 4, 109, 55, 31, 216, 235, 251, 12, 127, 170, 153, 34, 160, 237, 53, 206, 184, 156, 156, 68, 89, 9, 161>>,
    <<137, 151, 12, 243, 94, 12, 65, 67, 235, 63, 35, 131, 136, 31, 130, 206, 69, 198, 100, 183, 217, 29, 202, 241, 63, 72, 131, 66, 100, 107, 109, 13, 175, 246, 40, 140, 32, 15, 155, 129, 43, 178, 6, 28, 150, 129, 174, 174, 156, 145, 214, 101, 68, 5, 47, 15, 123, 90, 162, 158, 133, 57, 163, 68>>,
    <<120, 70, 205, 212, 194, 185, 5, 39, 104, 184, 144, 22, 64, 18, 46, 82, 130, 224, 184, 51, 166, 165, 131, 18, 167, 118, 52, 114, 212, 72, 238, 35, 120, 28, 127, 8, 217, 7, 147, 253, 254, 113, 255, 231, 66, 56, 207, 110, 74, 167, 120, 204, 155, 184, 206, 192, 62, 167, 38, 141, 72, 147, 165, 2>>,
    <<96, 62, 78, 170, 65, 23, 105, 182, 216, 58, 19, 191, 47, 222, 99, 40, 147, 34, 52, 63, 140, 104, 63, 246, 29, 131, 34, 1, 225, 207, 77, 62, 67, 42, 29, 152, 25, 227, 39, 254, 20, 218, 97, 171, 101, 238, 112, 222, 227, 157, 74, 63, 136, 167, 21, 48, 189, 226, 202, 231, 61, 54, 113, 11>>,
    <<194, 85, 157, 235, 76, 170, 66, 142, 153, 245, 159, 61, 24, 42, 245, 255, 184, 215, 98, 50, 146, 41, 14, 75, 124, 95, 214, 196, 69, 243, 231, 101, 30, 127, 215, 101, 45, 67, 157, 15, 174, 59, 101, 161, 210, 154, 149, 226, 212, 91, 150, 8, 237, 182, 101, 237, 98, 98, 101, 12, 12, 187, 108, 17>>,
    <<124, 11, 13, 153, 166, 228, 195, 60, 218, 15, 111, 99, 84, 127, 135, 143, 77, 217, 244, 134, 223, 229, 208, 68, 108, 224, 4, 177, 192, 255, 40, 241, 145, 255, 134, 245, 213, 147, 61, 54, 20, 204, 238, 230, 251, 189, 193, 126, 101, 136, 129, 211, 161, 100, 223, 165, 214, 244, 198, 153, 178, 18, 110, 61>>,
    <<11, 97, 36, 29, 124, 23, 188, 187, 27, 174, 231, 9, 77, 20, 183, 196, 81, 239, 236, 199, 255, 203, 217, 37, 152, 160, 241, 61, 49, 60, 201, 235, 194, 160, 126, 97, 240, 7, 186, 245, 143, 191, 148, 255, 154, 134, 149, 189, 213, 202, 231, 206, 3, 187, 241, 233, 78, 147, 97, 58, 0, 242, 95, 33>>,
    <<92, 134, 240, 52, 78, 210, 73, 66, 92, 138, 173, 63, 39, 43, 114, 162, 206, 15, 243, 136, 121, 31, 49, 73, 126, 175, 37, 127, 167, 38, 41, 72, 127, 170, 253, 127, 210, 126, 176, 221, 99, 85, 213, 80, 158, 47, 63, 175, 118, 113, 16, 21, 205, 146, 7, 210, 72, 213, 80, 253, 234, 21, 39, 79>>,
    <<49, 188, 160, 32, 148, 235, 120, 18, 106, 81, 123, 32, 106, 136, 199, 60, 250, 158, 198, 247, 4, 199, 3, 13, 24, 33, 44, 172, 232, 32, 240, 37, 240, 11, 240, 234, 104, 219, 243, 243, 165, 67, 108, 166, 59, 83, 191, 123, 248, 10, 216, 213, 222, 125, 131, 89, 208, 183, 254, 217, 219, 195, 171, 153>>,
    <<77, 255, 78, 163, 64, 240, 168, 35, 241, 93, 63, 79, 1, 171, 98, 234, 224, 229, 218, 87, 156, 203, 133, 31, 141, 185, 223, 232, 76, 88, 178, 179, 123, 137, 144, 58, 116, 14, 30, 225, 114, 218, 121, 58, 110, 121, 213, 96, 229, 247, 249, 189, 5, 138, 18, 162, 128, 67, 62, 214, 250, 70, 81, 10>>,
    <<64, 178, 68, 17, 38, 65, 221, 120, 221, 79, 147, 182, 201, 25, 13, 212, 110, 0, 153, 25, 77, 90, 68, 37, 123, 126, 250, 214, 239, 159, 244, 104, 61, 161, 237, 160, 36, 68, 72, 203, 52, 58, 166, 136, 245, 211, 239, 215, 49, 77, 175, 229, 128, 172, 11, 203, 241, 21, 174, 202, 158, 141, 193, 20>>,
    <<59, 175, 191, 8, 136, 42, 45, 16, 19, 48, 147, 161, 184, 67, 63, 80, 86, 59, 147, 193, 74, 205, 5, 183, 144, 40, 235, 29, 18, 121, 144, 39, 36, 20, 80, 152, 6, 81, 153, 69, 1, 66, 58, 102, 194, 118, 174, 38, 196, 59, 115, 155, 198, 92, 78, 22, 177, 12, 58, 246, 194, 2, 174, 187>>,
    <<163, 33, 216, 180, 5, 227, 239, 38, 4, 149, 152, 71, 179, 109, 23, 30, 235, 235, 196, 168, 148, 29, 199, 10, 71, 132, 147, 90, 79, 202, 93, 88, 19, 222, 132, 223, 160, 73, 240, 101, 73, 170, 97, 178, 8, 72, 193, 99, 60, 232, 27, 103, 82, 134, 234, 143, 181, 61, 178, 64, 216, 49, 197, 104>>,
    <<6, 223, 5, 55, 25, 129, 162, 55, 208, 237, 17, 71, 47, 174, 124, 148, 201, 172, 14, 255, 29, 5, 65, 53, 22, 113, 13, 23, 177, 10, 79, 182, 244, 81, 123, 218, 74, 105, 95, 2, 208, 167, 61, 212, 219, 84, 59, 70, 83, 223, 40, 245, 208, 157, 171, 134, 249, 47, 251, 155, 134, 208, 30, 37>>,
    <<60, 154, 213, 81, 71, 167, 20, 79, 96, 103, 50, 124, 59, 130, 234, 112, 231, 197, 66, 106, 221, 156, 238, 164, 208, 125, 194, 144, 34, 57, 191, 158, 4, 155, 136, 98, 94, 182, 93, 1, 74, 119, 24, 247, 147, 84, 96, 140, 171, 9, 33, 120, 44, 100, 63, 2, 8, 152, 63, 255, 163, 88, 46, 64>>,
    <<240, 82, 16, 197, 180, 38, 63, 14, 196, 195, 153, 91, 218, 180, 88, 216, 29, 57, 83, 243, 84, 169, 16, 149, 32, 241, 89, 219, 30, 136, 0, 188, 212, 91, 151, 197, 109, 206, 144, 161, 252, 39, 171, 3, 224, 184, 169, 175, 134, 115, 116, 112, 35, 196, 6, 41, 147, 116, 17, 109, 111, 150, 105, 129>>,
    <<188, 35, 184, 176, 23, 114, 210, 221, 103, 239, 184, 254, 26, 94, 107, 208, 244, 75, 151, 195, 97, 1, 190, 108, 192, 159, 37, 59, 83, 230, 141, 103, 162, 46, 70, 67, 6, 141, 253, 19, 65, 152, 1, 52, 234, 87, 87, 10, 207, 101, 227, 6, 228, 217, 108, 239, 77, 86, 3, 132, 137, 76, 136, 164>>,
    <<13, 197, 38, 216, 196, 250, 4, 8, 79, 75, 42, 100, 51, 244, 205, 20, 102, 75, 147, 223, 159, 184, 169, 224, 11, 119, 186, 137, 11, 131, 112, 77, 36, 148, 76, 147, 202, 166, 146, 181, 16, 133, 187, 71, 111, 129, 133, 44, 39, 231, 147, 96, 15, 19, 122, 227, 146, 144, 24, 205, 76, 143, 26, 69>>,
    <<230, 232, 16, 64, 80, 45, 54, 211, 216, 58, 67, 190, 70, 16, 241, 71, 139, 223, 38, 123, 36, 50, 35, 239, 39, 218, 116, 24, 164, 175, 54, 69, 166, 215, 22, 240, 249, 38, 206, 162, 39, 144, 203, 25, 3, 34, 126, 210, 231, 84, 202, 127, 44, 64, 193, 125, 24, 7, 4, 238, 71, 247, 51, 15>>,
    <<226, 142, 84, 127, 129, 56, 16, 111, 189, 208, 198, 252, 219, 65, 71, 217, 129, 67, 127, 130, 46, 95, 134, 223, 83, 4, 2, 238, 183, 138, 213, 152, 96, 113, 117, 137, 4, 163, 10, 219, 125, 244, 92, 129, 11, 104, 82, 73, 240, 120, 143, 125, 244, 189, 152, 254, 180, 48, 248, 238, 92, 194, 43, 28>>,
    <<177, 137, 88, 161, 88, 32, 59, 82, 173, 48, 180, 206, 126, 83, 153, 206, 29, 116, 17, 179, 248, 200, 200, 69, 253, 46, 240, 214, 200, 85, 249, 96, 74, 88, 74, 50, 106, 215, 0, 72, 251, 148, 245, 6, 152, 61, 51, 217, 169, 133, 233, 131, 129, 230, 239, 61, 119, 246, 212, 114, 36, 168, 220, 9>>,
    <<79, 106, 191, 41, 188, 115, 123, 116, 23, 5, 217, 182, 231, 146, 240, 85, 191, 19, 132, 243, 100, 9, 149, 151, 64, 216, 62, 79, 59, 215, 117, 8, 78, 220, 101, 107, 180, 139, 93, 41, 66, 81, 138, 242, 137, 67, 50, 18, 97, 63, 163, 163, 1, 119, 131, 225, 202, 179, 189, 253, 137, 98, 54, 99>>,
    <<16, 12, 172, 226, 137, 152, 144, 203, 211, 97, 240, 172, 95, 132, 76, 121, 140, 189, 56, 54, 165, 226, 114, 155, 24, 61, 77, 137, 70, 244, 153, 22, 254, 77, 38, 149, 37, 179, 9, 155, 108, 159, 155, 239, 112, 151, 200, 34, 16, 200, 37, 104, 134, 206, 217, 97, 22, 41, 83, 113, 77, 93, 192, 53>>,
    <<202, 99, 192, 122, 211, 93, 140, 159, 176, 201, 45, 97, 70, 117, 155, 18, 45, 78, 197, 211, 246, 126, 190, 47, 48, 221, 182, 159, 158, 108, 159, 211, 191, 49, 165, 228, 8, 176, 143, 29, 77, 156, 214, 129, 32, 204, 237, 158, 87, 240, 16, 190, 243, 205, 233, 118, 83, 254, 213, 71, 13, 167, 209, 160>>,
    <<233, 123, 156, 192, 193, 226, 44, 102, 191, 243, 31, 108, 69, 124, 43, 149, 185, 249, 175, 149, 92, 138, 9, 142, 4, 55, 52, 223, 116, 57, 3, 31, 209, 198, 116, 138, 19, 157, 153, 7, 126, 178, 219, 95, 61, 152, 160, 233, 208, 91, 102, 6, 227, 212, 1, 14, 193, 7, 165, 44, 215, 228, 51, 89>>,
    <<33, 180, 244, 189, 158, 100, 237, 53, 92, 62, 182, 118, 162, 142, 190, 218, 246, 216, 241, 123, 220, 54, 89, 149, 179, 25, 9, 113, 83, 4, 64, 128, 81, 107, 208, 131, 191, 204, 230, 97, 33, 163, 7, 38, 70, 153, 76, 132, 48, 204, 56, 43, 141, 197, 67, 232, 72, 128, 24, 59, 248, 86, 207, 245>>,
    <<132, 139, 7, 121, 255, 65, 95, 10, 244, 234, 20, 223, 157, 209, 211, 194, 154, 196, 29, 131, 108, 120, 8, 137, 108, 78, 186, 25, 197, 26, 196, 10, 67, 156, 175, 94, 97, 236, 136, 195, 7, 199, 214, 25, 25, 82, 41, 65, 46, 170, 115, 251, 42, 94, 162, 13, 35, 204, 134, 169, 216, 248, 106, 15>>,
    <<61, 99, 122, 230, 61, 89, 82, 45, 211, 203, 27, 129, 193, 173, 103, 229, 109, 70, 24, 91, 9, 113, 224, 188, 125, 210, 216, 173, 59, 38, 9, 10, 203, 99, 76, 37, 47, 198, 166, 59, 55, 102, 147, 67, 20, 234, 26, 110, 89, 250, 12, 140, 43, 192, 39, 167, 182, 164, 96, 178, 145, 205, 77, 251>>,
    <<42, 201, 104, 117, 47, 98, 75, 227, 227, 223, 70, 118, 75, 81, 183, 131, 31, 235, 112, 212, 3, 7, 223, 93, 88, 125, 71, 147, 191, 254, 175, 139, 64, 66, 161, 253, 109, 70, 93, 242, 170, 204, 51, 4, 50, 141, 67, 30, 241, 14, 8, 59, 175, 105, 11, 140, 197, 53, 72, 10, 79, 239, 9, 47>>,
    <<153, 196, 38, 204, 11, 243, 196, 101, 249, 196, 164, 158, 90, 108, 61, 9, 164, 60, 79, 149, 99, 23, 118, 179, 84, 190, 7, 39, 243, 246, 85, 103, 174, 147, 87, 197, 213, 80, 21, 226, 207, 187, 39, 234, 217, 142, 27, 181, 79, 42, 15, 38, 4, 42, 210, 103, 162, 121, 240, 227, 168, 197, 178, 233>>,
    <<210, 30, 201, 20, 108, 60, 50, 114, 17, 184, 183, 253, 68, 0, 57, 22, 185, 56, 215, 81, 212, 88, 254, 206, 37, 239, 81, 250, 156, 136, 150, 201, 124, 235, 34, 208, 50, 230, 220, 115, 136, 198, 20, 58, 59, 49, 87, 118, 73, 73, 167, 178, 203, 176, 98, 224, 5, 221, 95, 0, 147, 16, 171, 0>>,
    <<218, 99, 123, 63, 50, 215, 199, 228, 16, 171, 97, 149, 32, 224, 207, 69, 41, 22, 154, 92, 50, 110, 203, 244, 202, 122, 59, 194, 51, 10, 212, 154, 132, 251, 164, 214, 200, 145, 146, 100, 238, 197, 220, 117, 239, 128, 19, 127, 120, 205, 164, 14, 38, 243, 247, 65, 181, 201, 255, 37, 157, 110, 253, 191>>,
    <<144, 50, 251, 148, 5, 93, 77, 20, 228, 33, 133, 189, 255, 89, 100, 43, 152, 254, 96, 115, 246, 143, 41, 211, 148, 98, 12, 78, 105, 138, 134, 251, 46, 81, 53, 28, 166, 153, 126, 106, 22, 74, 174, 11, 135, 28, 247, 137, 251, 198, 224, 216, 99, 115, 61, 5, 144, 59, 78, 177, 27, 229, 141, 156>>,
    <<50, 177, 120, 110, 202, 43, 159, 129, 91, 76, 82, 185, 153, 226, 179, 77, 174, 135, 122, 134, 192, 14, 143, 116, 94, 122, 194, 51, 136, 102, 92, 7, 3, 169, 71, 8, 91, 215, 249, 117, 197, 33, 15, 250, 185, 181, 168, 243, 147, 26, 180, 11, 38, 205, 123, 204, 196, 215, 105, 12, 209, 154, 66, 119>>,
    <<60, 38, 108, 0, 53, 222, 89, 234, 178, 160, 221, 49, 179, 220, 180, 169, 221, 21, 123, 49, 2, 137, 229, 219, 154, 180, 248, 194, 253, 219, 116, 51, 70, 109, 72, 242, 93, 167, 173, 115, 90, 28, 184, 242, 147, 90, 166, 18, 173, 31, 98, 240, 239, 206, 206, 57, 51, 186, 153, 121, 8, 46, 35, 4>>,
    <<221, 219, 158, 196, 196, 172, 4, 162, 85, 157, 155, 113, 30, 170, 142, 53, 71, 93, 179, 196, 214, 167, 160, 109, 222, 120, 93, 200, 63, 62, 209, 33, 113, 12, 181, 18, 115, 60, 128, 149, 255, 52, 111, 200, 96, 30, 122, 115, 236, 181, 63, 172, 117, 32, 16, 17, 110, 105, 43, 28, 231, 60, 142, 89>>,
    <<36, 45, 204, 189, 21, 228, 15, 143, 120, 203, 111, 197, 76, 185, 137, 71, 19, 183, 104, 42, 253, 19, 5, 213, 35, 14, 38, 242, 253, 169, 111, 215, 100, 6, 23, 19, 228, 149, 78, 34, 69, 123, 55, 242, 92, 50, 142, 131, 66, 194, 191, 107, 85, 132, 70, 16, 205, 7, 86, 253, 2, 39, 26, 239>>,
    <<37, 52, 5, 224, 59, 145, 68, 26, 109, 211, 84, 169, 183, 46, 4, 0, 104, 177, 191, 225, 14, 131, 235, 26, 100, 160, 134, 192, 85, 37, 216, 204, 174, 43, 240, 145, 48, 198, 36, 175, 80, 213, 92, 53, 34, 164, 251, 183, 193, 140, 252, 141, 216, 67, 229, 244, 128, 29, 154, 210, 181, 22, 75, 18>>,
    <<107, 59, 0, 106, 163, 168, 98, 134, 195, 89, 166, 210, 67, 214, 42, 97, 228, 111, 12, 95, 125, 29, 181, 135, 250, 162, 111, 190, 114, 113, 142, 174, 227, 63, 119, 74, 241, 100, 227, 186, 121, 13, 74, 228, 19, 106, 37, 220, 153, 61, 50, 70, 247, 190, 102, 145, 250, 115, 70, 208, 190, 15, 26, 113>>,
    <<120, 5, 86, 192, 75, 39, 20, 255, 29, 126, 206, 220, 87, 50, 96, 250, 241, 105, 208, 89, 135, 28, 179, 21, 65, 83, 249, 192, 6, 54, 36, 45, 131, 189, 85, 90, 208, 215, 35, 174, 124, 11, 123, 99, 151, 133, 5, 119, 247, 13, 92, 95, 175, 213, 21, 93, 125, 39, 182, 102, 60, 155, 181, 118>>,
    <<235, 236, 242, 127, 157, 1, 163, 30, 27, 127, 222, 125, 40, 190, 254, 153, 36, 145, 202, 86, 120, 229, 193, 250, 245, 157, 104, 129, 113, 255, 13, 193, 32, 231, 92, 136, 130, 19, 206, 52, 12, 248, 211, 186, 228, 196, 49, 251, 251, 105, 146, 113, 154, 67, 114, 181, 27, 157, 216, 139, 129, 84, 127, 1>>,
    <<45, 220, 213, 253, 102, 246, 44, 56, 19, 86, 3, 222, 252, 114, 132, 147, 188, 144, 18, 201, 234, 106, 188, 138, 152, 35, 22, 87, 146, 19, 101, 19, 178, 197, 55, 34, 210, 167, 156, 13, 110, 163, 20, 103, 48, 139, 187, 73, 235, 33, 125, 21, 29, 121, 186, 244, 178, 8, 95, 72, 125, 10, 191, 174>>,
    <<227, 42, 242, 19, 69, 231, 169, 50, 218, 24, 106, 71, 173, 177, 115, 221, 28, 105, 152, 118, 123, 37, 248, 57, 127, 55, 64, 232, 126, 89, 28, 35, 112, 190, 111, 43, 17, 200, 54, 234, 107, 73, 120, 3, 79, 255, 35, 147, 9, 247, 33, 231, 191, 36, 145, 182, 186, 9, 156, 52, 127, 221, 194, 111>>,
    <<13, 170, 124, 201, 134, 82, 0, 184, 44, 14, 190, 87, 73, 113, 151, 168, 4, 253, 195, 1, 239, 122, 8, 141, 207, 10, 202, 215, 224, 74, 0, 127, 82, 231, 208, 217, 252, 106, 234, 56, 123, 51, 58, 76, 114, 222, 79, 190, 227, 135, 109, 196, 143, 25, 105, 39, 57, 247, 192, 237, 74, 62, 221, 178>>,
    <<178, 57, 106, 0, 47, 231, 174, 192, 8, 128, 134, 135, 215, 203, 172, 179, 64, 183, 247, 160, 144, 0, 131, 130, 243, 201, 88, 112, 246, 251, 16, 65, 95, 97, 245, 115, 124, 16, 45, 75, 254, 197, 143, 229, 37, 64, 126, 162, 0, 30, 118, 29, 171, 29, 168, 165, 1, 217, 82, 57, 33, 240, 236, 33>>,
    <<218, 69, 175, 178, 18, 178, 49, 0, 244, 91, 211, 146, 41, 63, 194, 243, 50, 176, 190, 188, 155, 12, 181, 134, 108, 18, 23, 67, 192, 69, 128, 107, 3, 23, 88, 240, 184, 138, 114, 138, 123, 52, 74, 138, 65, 254, 11, 240, 124, 179, 153, 103, 224, 77, 107, 101, 34, 19, 251, 229, 19, 246, 49, 123>>,
    <<64, 66, 46, 39, 51, 167, 61, 236, 47, 154, 172, 72, 226, 171, 72, 211, 178, 253, 205, 193, 227, 168, 139, 199, 234, 133, 82, 39, 230, 44, 2, 146, 70, 218, 29, 212, 157, 208, 87, 187, 138, 139, 121, 107, 59, 42, 111, 96, 217, 216, 168, 93, 229, 61, 245, 151, 228, 34, 178, 246, 140, 84, 207, 182>>,
    <<97, 3, 119, 36, 162, 251, 0, 161, 47, 168, 165, 58, 218, 35, 63, 84, 255, 127, 198, 238, 2, 4, 142, 87, 155, 131, 161, 39, 206, 121, 252, 3, 144, 108, 53, 181, 48, 123, 235, 24, 163, 207, 80, 33, 254, 3, 26, 230, 88, 116, 72, 212, 214, 10, 8, 45, 115, 37, 47, 226, 226, 244, 174, 127>>,
    <<49, 115, 240, 86, 74, 185, 70, 43, 9, 120, 167, 101, 193, 40, 63, 150, 240, 90, 201, 233, 248, 54, 30, 225, 0, 109, 201, 5, 193, 83, 216, 91, 240, 228, 196, 86, 34, 229, 233, 144, 171, 207, 72, 251, 81, 146, 173, 52, 114, 46, 141, 106, 114, 50, 120, 179, 159, 239, 158, 79, 159, 198, 35, 120>>,
    <<73, 33, 222, 30, 219, 46, 204, 140, 163, 162, 40, 35, 112, 81, 148, 185, 2, 207, 164, 113, 103, 95, 45, 26, 232, 191, 103, 208, 199, 176, 96, 167, 193, 146, 227, 111, 252, 169, 241, 160, 217, 10, 194, 219, 189, 175, 66, 158, 225, 236, 151, 225, 96, 235, 0, 220, 128, 176, 112, 0, 147, 83, 4, 243>>,
    <<50, 37, 223, 240, 113, 205, 12, 207, 247, 54, 176, 177, 89, 204, 114, 41, 99, 49, 12, 0, 132, 114, 190, 129, 70, 105, 69, 26, 6, 44, 37, 197, 247, 101, 79, 7, 157, 62, 10, 225, 207, 47, 218, 21, 81, 165, 160, 177, 245, 233, 136, 56, 59, 231, 211, 131, 213, 127, 115, 212, 1, 44, 64, 36>>,
    <<232, 179, 76, 191, 6, 28, 164, 197, 142, 137, 180, 14, 121, 123, 238, 253, 182, 99, 182, 129, 169, 110, 45, 28, 205, 143, 3, 249, 181, 46, 180, 224, 11, 102, 29, 1, 125, 28, 115, 242, 116, 105, 119, 168, 230, 30, 252, 24, 211, 211, 221, 229, 246, 105, 173, 144, 98, 207, 83, 60, 48, 178, 251, 177>>,
    <<10, 12, 209, 22, 194, 197, 127, 177, 37, 253, 154, 218, 19, 31, 108, 169, 100, 88, 122, 153, 88, 162, 20, 129, 74, 98, 61, 177, 130, 30, 213, 206, 50, 218, 238, 196, 8, 90, 20, 227, 29, 144, 10, 53, 123, 30, 37, 73, 49, 155, 46, 12, 194, 200, 207, 186, 252, 106, 74, 74, 175, 235, 226, 3>>,
    <<222, 203, 180, 233, 164, 67, 157, 68, 10, 20, 215, 232, 0, 74, 241, 6, 86, 180, 123, 187, 4, 17, 135, 130, 81, 198, 232, 196, 39, 51, 168, 198, 128, 230, 188, 189, 112, 234, 219, 113, 253, 12, 128, 195, 177, 129, 75, 223, 236, 6, 128, 239, 73, 150, 2, 245, 103, 47, 39, 67, 109, 228, 136, 164>>,
    <<32, 77, 26, 86, 129, 76, 186, 237, 201, 73, 64, 77, 223, 199, 169, 205, 73, 239, 43, 57, 207, 141, 152, 175, 230, 198, 121, 118, 63, 190, 49, 52, 216, 34, 240, 211, 119, 219, 185, 253, 79, 126, 246, 105, 39, 39, 1, 90, 116, 34, 15, 115, 151, 102, 131, 83, 8, 119, 111, 174, 14, 103, 163, 125>>,
    <<187, 190, 127, 37, 89, 199, 149, 61, 40, 31, 186, 127, 37, 37, 128, 99, 219, 200, 165, 92, 91, 159, 223, 205, 51, 78, 205, 100, 168, 215, 216, 152, 12, 111, 110, 224, 69, 123, 244, 150, 188, 255, 116, 121, 145, 247, 65, 68, 111, 24, 20, 34, 38, 120, 223, 167, 69, 127, 26, 211, 166, 248, 72, 179>>,
    <<115, 229, 227, 190, 174, 91, 40, 49, 126, 214, 176, 207, 240, 140, 123, 187, 145, 86, 220, 173, 142, 143, 140, 88, 57, 158, 8, 119, 208, 31, 65, 239, 7, 118, 164, 192, 189, 93, 169, 209, 148, 170, 10, 23, 95, 94, 213, 42, 212, 77, 109, 163, 139, 209, 114, 31, 140, 55, 229, 90, 116, 95, 36, 135>>,
    <<31, 64, 252, 146, 218, 36, 22, 148, 117, 9, 121, 238, 108, 245, 130, 242, 213, 215, 210, 142, 24, 51, 93, 224, 90, 188, 84, 208, 86, 14, 15, 83, 2, 134, 12, 101, 43, 240, 141, 86, 2, 82, 170, 94, 116, 33, 5, 70, 243, 105, 251, 187, 206, 140, 18, 207, 199, 149, 123, 38, 82, 254, 154, 117>>,
    <<82, 103, 118, 136, 34, 238, 98, 77, 72, 252, 225, 94, 197, 202, 121, 203, 214, 2, 203, 127, 76, 33, 87, 165, 22, 85, 105, 145, 242, 46, 248, 199, 181, 239, 123, 24, 209, 255, 65, 197, 147, 112, 239, 176, 133, 134, 81, 212, 74, 147, 108, 17, 183, 177, 68, 196, 143, 224, 77, 243, 198, 163, 232, 218>>,
    <<172, 194, 141, 178, 190, 183, 180, 43, 170, 28, 176, 36, 61, 64, 28, 203, 78, 63, 206, 68, 215, 176, 40, 121, 165, 39, 153, 170, 223, 245, 65, 82, 45, 136, 34, 89, 139, 47, 166, 100, 249, 213, 21, 108, 0, 201, 36, 128, 93, 117, 195, 134, 139, 213, 108, 42, 203, 129, 211, 126, 152, 227, 90, 220>>,
    <<72, 251, 16, 177, 95, 61, 68, 160, 157, 200, 45, 2, 176, 101, 129, 224, 192, 198, 148, 120, 201, 253, 44, 248, 249, 9, 54, 89, 1, 154, 22, 135, 186, 236, 219, 179, 140, 158, 114, 177, 33, 105, 220, 65, 72, 105, 15, 135, 70, 127, 145, 84, 245, 147, 28, 93, 246, 101, 198, 73, 108, 191, 213, 245>>,
    <<135, 197, 104, 224, 55, 165, 250, 80, 177, 188, 145, 30, 142, 225, 154, 119, 196, 221, 60, 34, 188, 233, 147, 47, 134, 253, 216, 162, 22, 175, 225, 104, 28, 137, 115, 127, 173, 166, 133, 158, 145, 4, 126, 236, 231, 17, 236, 22, 218, 98, 214, 204, 185, 253, 13, 226, 197, 31, 19, 35, 71, 53, 13, 140>>,
    <<113, 28, 34, 68, 142, 114, 30, 84, 145, 216, 36, 91, 73, 66, 90, 168, 97, 241, 252, 74, 21, 40, 127, 7, 53, 226, 3, 121, 155, 101, 207, 254, 197, 11, 90, 189, 15, 221, 217, 28, 214, 67, 174, 179, 181, 48, 212, 143, 5, 226, 88, 231, 226, 48, 169, 78, 213, 2, 92, 19, 135, 187, 78, 27>>,
    <<25, 241, 66, 176, 24, 243, 7, 191, 223, 28, 112, 9, 209, 90, 41, 65, 124, 150, 216, 103, 141, 41, 130, 238, 188, 228, 150, 27, 46, 103, 238, 177, 24, 168, 235, 177, 215, 91, 112, 8, 124, 62, 101, 188, 121, 52, 80, 227, 254, 74, 16, 0, 43, 239, 162, 208, 56, 229, 174, 212, 121, 105, 55, 242>>,
    <<34, 65, 188, 143, 199, 7, 5, 180, 46, 254, 173, 55, 31, 212, 152, 44, 91, 166, 153, 23, 229, 180, 184, 149, 129, 0, 2, 100, 79, 3, 134, 218, 156, 49, 49, 121, 52, 88, 194, 191, 71, 96, 132, 128, 214, 74, 7, 39, 129, 51, 201, 153, 18, 224, 186, 45, 175, 35, 9, 143, 53, 32, 235, 151>>,
    <<80, 123, 85, 59, 16, 107, 27, 153, 99, 183, 175, 251, 52, 229, 237, 20, 188, 17, 96, 187, 222, 162, 76, 9, 68, 5, 179, 6, 189, 203, 37, 32, 130, 58, 12, 125, 183, 218, 75, 81, 207, 69, 203, 219, 173, 81, 158, 236, 169, 175, 253, 113, 3, 177, 49, 209, 230, 90, 73, 116, 186, 86, 177, 141>>,
    <<252, 216, 120, 4, 147, 217, 209, 29, 41, 3, 27, 146, 138, 157, 163, 88, 166, 244, 134, 39, 255, 240, 203, 126, 128, 251, 129, 7, 222, 134, 224, 195, 101, 220, 156, 248, 254, 47, 192, 90, 108, 230, 215, 88, 3, 183, 138, 200, 148, 216, 42, 57, 96, 66, 49, 42, 153, 94, 246, 59, 93, 212, 221, 17>>,
    <<42, 248, 169, 16, 75, 63, 100, 237, 100, 13, 140, 126, 41, 141, 45, 72, 15, 3, 163, 97, 12, 188, 43, 51, 71, 67, 33, 236, 89, 2, 74, 72, 89, 46, 168, 84, 94, 65, 224, 157, 93, 17, 8, 117, 157, 244, 142, 222, 0, 84, 242, 37, 223, 57, 212, 240, 243, 18, 69, 14, 10, 169, 221, 37>>,
    <<241, 1, 39, 116, 46, 7, 167, 112, 87, 53, 87, 47, 130, 53, 116, 184, 154, 175, 28, 190, 7, 25, 53, 203, 158, 117, 229, 207, 235, 129, 119, 0, 203, 72, 77, 17, 0, 161, 10, 213, 195, 43, 89, 195, 214, 86, 82, 17, 16, 138, 169, 239, 6, 17, 215, 236, 131, 12, 27, 102, 246, 14, 97, 77>>,
    <<241, 74, 174, 106, 14, 5, 11, 116, 228, 183, 185, 165, 178, 239, 26, 96, 206, 204, 187, 202, 57, 177, 50, 174, 62, 139, 248, 141, 58, 148, 108, 109, 134, 135, 243, 38, 111, 210, 182, 38, 65, 157, 139, 103, 220, 241, 216, 215, 192, 254, 114, 212, 145, 157, 155, 208, 94, 251, 211, 112, 112, 207, 180, 26>>,
    <<145, 113, 72, 236, 71, 146, 63, 46, 14, 61, 115, 20, 42, 196, 249, 78, 196, 199, 48, 120, 134, 91, 166, 210, 159, 14, 161, 114, 205, 111, 75, 243, 77, 182, 153, 175, 92, 51, 83, 93, 54, 148, 212, 174, 249, 26, 17, 249, 22, 0, 77, 3, 130, 247, 148, 68, 138, 133, 80, 98, 61, 52, 201, 133>>,
    <<205, 237, 116, 116, 13, 75, 191, 212, 235, 18, 109, 109, 228, 84, 181, 158, 45, 99, 31, 54, 192, 174, 13, 35, 37, 181, 226, 190, 77, 162, 190, 254, 121, 33, 6, 185, 132, 34, 173, 36, 192, 146, 232, 241, 132, 178, 255, 75, 224, 187, 188, 220, 210, 120, 219, 108, 36, 39, 83, 59, 46, 146, 100, 209>>,
    <<146, 152, 114, 131, 140, 185, 207, 230, 87, 142, 17, 240, 163, 35, 67, 138, 238, 90, 231, 246, 29, 65, 65, 45, 98, 219, 114, 178, 93, 172, 82, 1, 157, 226, 214, 163, 85, 235, 45, 3, 51, 54, 251, 112, 231, 63, 14, 192, 175, 236, 163, 239, 54, 221, 138, 144, 216, 63, 153, 143, 238, 35, 183, 141>>,
    <<46, 150, 119, 34, 50, 72, 127, 179, 160, 88, 213, 143, 44, 49, 0, 35, 224, 126, 64, 23, 201, 77, 86, 204, 95, 174, 75, 84, 180, 70, 5, 244, 42, 117, 176, 177, 243, 88, 153, 31, 140, 108, 190, 155, 104, 182, 78, 91, 42, 9, 208, 173, 35, 252, 172, 7, 238, 154, 145, 152, 167, 69, 225, 213>>,
    <<168, 130, 240, 172, 132, 139, 11, 107, 76, 167, 180, 43, 250, 29, 38, 106, 253, 13, 222, 186, 146, 4, 174, 87, 169, 132, 166, 147, 118, 213, 152, 22, 177, 239, 63, 77, 68, 46, 168, 167, 3, 150, 6, 127, 245, 183, 14, 10, 232, 234, 179, 147, 91, 97, 123, 142, 54, 109, 142, 53, 195, 191, 225, 76>>,
    <<44, 30, 230, 131, 114, 33, 91, 28, 224, 100, 66, 107, 92, 219, 212, 239, 37, 129, 172, 224, 221, 59, 33, 250, 43, 226, 127, 54, 72, 39, 36, 46, 131, 246, 139, 104, 190, 3, 245, 179, 226, 75, 229, 209, 180, 49, 95, 152, 160, 169, 109, 25, 113, 63, 179, 161, 157, 196, 85, 251, 106, 220, 52, 49>>,
    <<153, 249, 125, 69, 93, 93, 98, 178, 79, 58, 148, 42, 26, 188, 63, 168, 134, 63, 192, 206, 32, 55, 245, 47, 9, 189, 120, 91, 34, 184, 0, 212, 242, 231, 178, 182, 20, 203, 96, 15, 252, 42, 79, 226, 70, 121, 132, 91, 36, 136, 109, 105, 187, 119, 111, 207, 164, 110, 84, 209, 136, 136, 156, 111>>,
    <<88, 0, 121, 17, 191, 159, 102, 113, 30, 246, 94, 128, 123, 38, 195, 150, 162, 214, 251, 70, 79, 67, 129, 82, 12, 93, 74, 87, 93, 187, 129, 81, 15, 121, 211, 94, 52, 150, 4, 18, 138, 119, 26, 207, 42, 17, 122, 42, 253, 237, 192, 18, 216, 59, 14, 184, 34, 102, 138, 238, 13, 239, 71, 71>>,
    <<123, 7, 118, 219, 172, 116, 169, 171, 184, 160, 208, 17, 156, 115, 174, 130, 239, 187, 27, 149, 175, 0, 159, 6, 105, 226, 181, 44, 150, 100, 247, 251, 180, 88, 221, 243, 171, 215, 204, 240, 97, 122, 182, 147, 98, 161, 58, 222, 4, 108, 79, 25, 73, 7, 16, 229, 216, 147, 123, 167, 46, 250, 144, 170>>,
    <<170, 102, 80, 152, 145, 173, 40, 3, 3, 73, 186, 149, 129, 232, 201, 37, 40, 250, 171, 106, 52, 52, 144, 97, 164, 75, 111, 143, 205, 141, 104, 119, 166, 123, 5, 80, 137, 131, 241, 47, 134, 16, 48, 45, 23, 131, 64, 26, 7, 236, 65, 199, 233, 235, 214, 86, 222, 52, 236, 96, 216, 77, 149, 17>>,
    <<164, 171, 212, 68, 140, 73, 86, 45, 130, 129, 21, 209, 58, 31, 204, 234, 146, 127, 82, 180, 213, 69, 146, 151, 248, 180, 62, 66, 218, 137, 35, 139, 193, 54, 38, 228, 61, 203, 56, 221, 176, 130, 72, 137, 39, 236, 144, 79, 180, 32, 87, 68, 57, 131, 232, 133, 133, 23, 157, 80, 85, 26, 254, 98>>,
    <<18, 27, 71, 116, 167, 89, 146, 74, 41, 41, 196, 164, 18, 251, 110, 49, 185, 170, 167, 70, 70, 104, 64, 239, 204, 74, 118, 214, 154, 148, 20, 158, 35, 100, 227, 152, 61, 100, 111, 234, 250, 161, 181, 17, 120, 94, 92, 158, 144, 174, 220, 48, 218, 106, 107, 234, 213, 82, 14, 204, 153, 198, 98, 106>>,
    <<90, 230, 37, 102, 95, 62, 11, 208, 160, 101, 237, 7, 164, 25, 137, 228, 2, 91, 121, 209, 57, 48, 162, 168, 197, 125, 107, 67, 37, 34, 103, 7, 217, 86, 160, 130, 209, 233, 27, 77, 150, 167, 147, 86, 45, 249, 143, 208, 60, 157, 207, 116, 60, 156, 123, 78, 48, 85, 212, 249, 240, 155, 160, 21>>,
    <<194, 208, 60, 110, 251, 22, 195, 248, 6, 75, 13, 5, 158, 69, 249, 81, 241, 116, 132, 33, 166, 34, 87, 26, 82, 0, 157, 220, 194, 166, 112, 133, 30, 26, 208, 38, 159, 189, 129, 212, 88, 86, 250, 32, 255, 172, 208, 129, 221, 32, 254, 206, 118, 17, 66, 11, 239, 180, 158, 185, 132, 188, 35, 202>>,
    <<191, 201, 189, 225, 157, 249, 249, 21, 70, 181, 183, 188, 151, 213, 237, 233, 1, 193, 151, 108, 105, 36, 196, 164, 38, 139, 16, 94, 188, 84, 180, 175, 9, 210, 220, 123, 69, 5, 170, 247, 16, 28, 167, 179, 165, 16, 109, 93, 138, 53, 134, 214, 205, 175, 100, 39, 0, 205, 155, 29, 29, 173, 85, 55>>,
    <<146, 32, 185, 134, 90, 151, 210, 235, 156, 173, 52, 39, 23, 3, 247, 200, 230, 28, 190, 99, 167, 168, 125, 42, 163, 120, 63, 35, 102, 159, 20, 24, 78, 172, 218, 154, 68, 111, 108, 47, 55, 226, 84, 38, 236, 137, 84, 47, 220, 157, 129, 134, 251, 90, 136, 69, 226, 152, 150, 249, 32, 249, 241, 227>>,
    <<25, 209, 71, 103, 110, 178, 117, 240, 240, 18, 87, 98, 242, 35, 113, 159, 222, 153, 88, 133, 159, 84, 0, 204, 52, 226, 136, 123, 100, 162, 109, 150, 195, 196, 249, 213, 192, 251, 189, 164, 143, 34, 130, 13, 68, 21, 166, 138, 79, 219, 153, 2, 139, 59, 161, 151, 120, 135, 58, 113, 37, 229, 100, 119>>,
    <<117, 235, 105, 164, 62, 59, 188, 255, 50, 46, 198, 36, 174, 117, 17, 207, 58, 217, 157, 248, 75, 144, 212, 139, 38, 101, 199, 13, 255, 84, 140, 72, 87, 212, 68, 108, 30, 176, 69, 53, 191, 84, 218, 169, 110, 44, 245, 195, 213, 32, 61, 31, 180, 59, 191, 77, 64, 48, 27, 171, 149, 172, 119, 114>>
    >>

Sum512(b) ==
    IF Len(b) = 0 THEN Sum512Empty ELSE Sum512OfByte[b[1] + 1]

hashByteSize == 64

XorBytes(a, key) == [i \in 1..hashByteSize |-> ByteXor(a[i], key[i])]

(***************************************************************************)
(* KeyGen, Enc, Dec, Recover (elgamal.go).                                 *)
(***************************************************************************)
ZeroShare == [ID |-> 0, Value |-> NilInt]

\* every (group, error) pair GenerateSchnorrGroup(pBits, qBits) can return,
\* the randomness source working or failing at any of its reads: in
\* rand.Prime (nothing set yet), in RandomBits (Q set, P the last rejected
\* candidate or 0), in rand.Int (P and Q set, G = 1)
GenerateSchnorrGroup(pBits, qBits) ==
    IF qBits >= pBits
    THEN {[group |-> ZeroGroup, err |-> "qbits must be < pbits"]}
    ELSE IF qBits < 2
    THEN {[group |-> ZeroGroup, err |-> "prime size must be at least 2-bit"]}
    ELSE IF pBits - qBits <= 2
    THEN {[group |-> ZeroGroup, err |-> "rng"]} \cup
         {[group |-> [P |-> 0, Q |-> q, G |-> NilInt], err |-> "Bits must be > 2"] :
             q \in PrimeResults(qBits)}
    ELSE LET Cand == {<<SetBytes(res.out) * q + 1, q>> :
                         res \in RandomBitsTable[pBits - qBits],
                         q \in PrimeResults(qBits)}
             PQ == {pq \in Cand : ProbablyPrime(pq[1])}
         IN  {[group |-> ZeroGroup, err |-> "rng"]}
             \cup {[group |-> [P |-> 0, Q |-> q, G |-> NilInt], err |-> "rng"] :
                      q \in PrimeResults(qBits)}
             \cup {[group |-> [P |-> pq[1], Q |-> pq[2], G |-> NilInt], err |-> "rng"] :
                      pq \in Cand \ PQ}
             \cup {[group |-> [P |-> pq[1], Q |-> pq[2], G |-> 1], err |-> "rng"] :
                      pq \in PQ}
             \cup UNION {{[group |-> [P |-> pq[1], Q |-> pq[2], G |-> g], err |-> "nil"] :
                             g \in {GeneratorFor(h, pq[1], pq[2]) : h \in 2..(pq[1] - 1)} \ {1}} :
                         pq \in PQ}

\* the public Y is handed to the secret sharing instead of the private X
KeyGenSharesY(sg, x, coeffs, t, n, randOk, shareOk) ==
    LET zeroShares == [i \in 1..n |-> ZeroShare]
        pubG == [P |-> sg.group.P, Q |-> sg.group.Q, G |-> sg.group.G, Y |-> NilInt]
        pubY == [pubG EXCEPT !.Y = GFExp(pubG.G, x, pubG.P)]
    IN
    IF sg.err /= "nil"
    THEN [pub |-> ZeroPub, priv |-> ZeroPriv, shares |-> zeroShares, err |-> sg.err]
    ELSE IF ~NewGFOk(pubG.Q) \/ ~NewGFOk(pubG.P)
    THEN [pub |-> pubG, priv |-> ZeroPriv, shares |-> zeroShares, err |-> "field"]
    ELSE IF ~randOk
    THEN [pub |-> pubG, priv |-> ZeroPriv, shares |-> zeroShares, err |-> "rng"]
    ELSE IF ~shareOk
    THEN [pub |-> pubY, priv |-> [X |-> x], shares |-> zeroShares, err |-> "share"]
    ELSE [pub    |-> pubY,
          priv   |-> [X |-> x],
          shares |-> TOutOfN(GFExp(pubG.G, x, pubG.P), t, n, pubG.Q, coeffs),
          err    |-> "nil"]

\* KeyGen(pBits, qBits, t, n) when GenerateSchnorrGroup returns sg, zq.Rand()
\* returns x or (randOk = FALSE) an error, and secretshare.TOutOfN samples
\* coeffs or (shareOk = FALSE) returns an error
KeyGen(sg, x, coeffs, t, n, randOk, shareOk) ==
    LET zeroShares == [i \in 1..n |-> ZeroShare]
        pubG == [P |-> sg.group.P, Q |-> sg.group.Q, G |-> sg.group.G, Y |-> NilInt]
        pubY == [pubG EXCEPT !.Y = GFExp(pubG.G, x, pubG.P)]
    IN
    IF sg.err /= "nil"
    THEN [pub |-> ZeroPub, priv |-> ZeroPriv, shares |-> zeroShares, err |-> sg.err]
    ELSE IF ~NewGFOk(pubG.Q) \/ ~NewGFOk(pubG.P)
    THEN [pub |-> pubG, priv |-> ZeroPriv, shares |-> zeroShares, err |-> "field"]
    ELSE IF ~randOk
    THEN [pub |-> pubG, priv |-> ZeroPriv, shares |-> zeroShares, err |-> "rng"]
    ELSE IF ~shareOk
    THEN [pub |-> pubY, priv |-> [X |-> x], shares |-> zeroShares, err |-> "share"]
    ELSE [pub    |-> pubY,
          priv   |-> [X |-> x],
          shares |-> TOutOfN(x, t, n, pubG.Q, coeffs),
          err    |-> "nil"]

\* the length check compares with 65 instead of 64
EncWrongLength(pk, message, r, randOk) ==
    LET zeroC == ZeroBytes(hashByteSize) IN
    IF Len(message) /= hashByteSize + 1
    THEN [ctxt |-> [R |-> NilInt, C |-> zeroC], err |-> "arg", reads |-> 0]
    ELSE IF ~NewGFOk(pk.Q) \/ ~NewGFOk(pk.P)
    THEN [ctxt |-> [R |-> NilInt, C |-> zeroC], err |-> "field", reads |-> 0]
    ELSE IF ~randOk
    THEN [ctxt |-> [R |-> NilInt, C |-> zeroC], err |-> "rng", reads |-> 1]
    ELSE LET yr  == GFExp(pk.Y, r, pk.P)
             key == Sum512(Bytes(yr))
         IN  [ctxt |-> [R |-> GFExp(pk.G, r, pk.P), C |-> XorBytes(message, key)],
              err |-> "nil", reads |-> 1]

\* Enc(pub, message) when zq.Rand() returns r or (randOk = FALSE) an error
Enc(pk, message, r, randOk) ==
    LET zeroC == ZeroBytes(hashByteSize) IN
    IF Len(message) /= hashByteSize
    THEN [ctxt |-> [R |-> NilInt, C |-> zeroC], err |-> "arg", reads |-> 0]
    ELSE IF ~NewGFOk(pk.Q) \/ ~NewGFOk(pk.P)
    THEN [ctxt |-> [R |-> NilInt, C |-> zeroC], err |-> "field", reads |-> 0]
    ELSE IF ~randOk
    THEN [ctxt |-> [R |-> NilInt, C |-> zeroC], err |-> "rng", reads |-> 1]
    ELSE LET yr  == GFExp(pk.Y, r, pk.P)
             key == Sum512(Bytes(yr))
         IN  [ctxt |-> [R |-> GFExp(pk.G, r, pk.P), C |-> XorBytes(message, key)],
              err |-> "nil", reads |-> 1]

\* the generator is raised to the share instead of the ciphertext's R
DecWrongBase(pk, keyShare, ct) ==
    [share |-> [ID |-> keyShare.ID, Value |-> GFExp(pk.G, keyShare.Value, pk.P)],
     err |-> "nil"]

\* Dec(pub, keyShare, ctxt)
Dec(pk, keyShare, ct) ==
    IF ~NewGFOk(pk.P)
    THEN [share |-> [ID |-> keyShare.ID, Value |-> NilInt], err |-> "field"]
    ELSE [share |-> [ID |-> keyShare.ID, Value |-> GFExp(ct.R, keyShare.Value, pk.P)],
          err |-> "nil"]

\* the Lagrange coefficient is taken for the share's position in the list
\* instead of its ID
RECURSIVE CombinePositional(_, _, _, _, _)
CombinePositional(pk, ds, xs, i, z) ==
    IF i > Len(ds) THEN z
    ELSE LET bp     == BasePolynomial(i, [k \in 1..Len(ds) |-> k], pk.Q)
             factor == GFExp(ds[i].Value, bp, pk.P)
         IN  CombinePositional(pk, ds, xs, i + 1, GFMul(z, factor, pk.P))

\* lines 204-214: the loop from position i on, z being the product so far
RECURSIVE Combine(_, _, _, _, _)
Combine(pk, ds, xs, i, z) ==
    IF i > Len(ds) THEN z
    ELSE LET bp     == BasePolynomial(i, xs, pk.Q)
             factor == GFExp(ds[i].Value, bp, pk.P)
         IN  Combine(pk, ds, xs, i + 1, GFMul(z, factor, pk.P))

\* the Lagrange coefficients are taken over the field modulo P
RecoverWrongField(pk, ds, ct) ==
    LET xs == [i \in 1..Len(ds) |-> ds[i].ID]
        z  == Combine([pk EXCEPT !.Q = pk.P], ds, xs, 1, 1)
    IN  [msg |-> XorBytes(ct.C, Sum512(Bytes(z))), err |-> "nil"]

\* a Recover that validates its shares: an empty list or a repeated ID is
\* refused with an error
RecoverValidating(pk, ds, ct) ==
    LET xs == [i \in 1..Len(ds) |-> ds[i].ID] IN
    IF ~NewGFOk(pk.P) \/ ~NewGFOk(pk.Q)
    THEN [msg |-> ZeroBytes(hashByteSize), err |-> "field"]
    ELSE IF Len(ds) = 0 \/ (\E i, j \in 1..Len(ds) : i /= j /\ xs[i] = xs[j])
    THEN [msg |-> ZeroBytes(hashByteSize), err |-> "arg"]
    ELSE [msg |-> XorBytes(ct.C, Sum512(Bytes(Combine(pk, ds, xs, 1, 1)))), err |-> "nil"]

\* Recover(pub, decryptionShares, ctxt)
Recover(pk, ds, ct) ==
    LET xs == [i \in 1..Len(ds) |-> ds[i].ID] IN
    IF ~NewGFOk(pk.P) \/ ~NewGFOk(pk.Q)
    THEN [msg |-> ZeroBytes(hashByteSize), err |-> "field"]
    ELSE LET z   == Combine(pk, ds, xs, 1, 1)
             key == Sum512(Bytes(z))
         IN  [msg |-> XorBytes(ct.C, key), err |-> "nil"]

(***************************************************************************)
(* Spec: the dealer runs KeyGen, a sender runs Enc, custodians run Dec in  *)
(* any order, and the shares collected so far are handed to Recover.       *)
(***************************************************************************)
\* at most MaxN shares are dealt
MaxN == 3
\* thresholds and group sizes the dealer asks for; (3, 3) is refused
Thresholds == {1, 2}
KeyGenBits == {<<6, 3>>, <<3, 3>>}

\* 'Hello world', padded to 64 bytes (TestRecover), and its unpadded form
HelloWorld == <<72, 101, 108, 108, 111, 32, 119, 111, 114, 108, 100>>
HelloWorld64 == HelloWorld \o ZeroBytes(hashByteSize - Len(HelloWorld))
Messages ==
    {HelloWorld64, [i \in 1..hashByteSize |-> 255],
     HelloWorld, ZeroBytes(hashByteSize - 1), ZeroBytes(hashByteSize + 1), << >>}

Init ==
    /\ pc = "start"
    /\ args \in {[op |-> "KeyGen", pBits |-> b[1], qBits |-> b[2], t |-> t, n |-> n] :
                    b \in KeyGenBits, t \in Thresholds, n \in 2..MaxN}
    /\ args.t <= args.n
    /\ IdleRandomBits /\ IdleSchnorr /\ IdleProtocol

KeyGenStep ==
    /\ pc = "start"
    /\ \E sg \in GenerateSchnorrGroup(args.pBits, args.qBits) :
         \E x \in (IF sg.err = "nil" THEN 0..(sg.group.Q - 1) ELSE {0}) :
           \E coeffs \in (IF sg.err = "nil"
                          THEN [1..(args.t - 1) -> 0..(sg.group.Q - 1)]
                          ELSE {<< >>}) :
             \E randOk, shareOk \in BOOLEAN :
              LET res == KeyGen(sg, x, coeffs, args.t, args.n, randOk, shareOk) IN
              /\ pub' = res.pub
              /\ priv' = res.priv
              /\ shares' = res.shares
              /\ err' = res.err
              /\ pc' = IF res.err = "nil" THEN "keyed" ELSE "keygen_failed"
    /\ UNCHANGED <<args, rbRes, reads, schnorr, sgErr, msg, ctxt, decShares, recovered>>

EncStep ==
    /\ pc = "keyed"
    /\ \E m \in Messages :
         \E r \in 0..(pub.Q - 1), randOk \in BOOLEAN :
            LET res == Enc(pub, m, r, randOk) IN
            /\ msg' = m
            /\ ctxt' = res.ctxt
            /\ err' = res.err
            /\ reads' = res.reads
            /\ pc' = IF res.err = "nil" THEN "encrypted" ELSE "enc_failed"
    /\ UNCHANGED <<args, rbRes, schnorr, sgErr, pub, priv, shares, decShares, recovered>>

\* a custodian who has not answered yet produces its decryption share
DecStep ==
    /\ pc = "encrypted"
    /\ \E i \in 1..Len(shares) :
         /\ {k \in 1..Len(decShares) : decShares[k].ID = shares[i].ID} = {}
         /\ LET res == Dec(pub, shares[i], ctxt) IN
            /\ decShares' = Append(decShares, res.share)
            /\ err' = res.err
            /\ pc' = IF res.err = "nil" THEN "encrypted" ELSE "dec_failed"
    /\ UNCHANGED <<args, rbRes, reads, schnorr, sgErr, pub, priv, shares, msg, ctxt, recovered>>

RecoverStep ==
    /\ pc = "encrypted"
    /\ LET res == Recover(pub, decShares, ctxt) IN
       /\ recovered' = res.msg
       /\ err' = res.err
       /\ pc' = IF res.err = "nil" THEN "recovered" ELSE "recover_failed"
    /\ UNCHANGED <<args, rbRes, reads, schnorr, sgErr, pub, priv, shares, msg, ctxt, decShares>>

Next == KeyGenStep \/ EncStep \/ DecStep \/ RecoverStep

Spec == Init /\ [][Next]_vars

(***************************************************************************)
(* Claims about the protocol.                                              *)
(***************************************************************************)
\* x^y mod m by y successive multiplications
RECURSIVE PowMod(_, _, _)
PowMod(x, y, m) == IF y = 0 THEN 1 % m ELSE (x * PowMod(x, y - 1, m)) % m

\* the elements of a set of numbers in increasing order
RECURSIVE SeqOfSet(_)
SeqOfSet(S) ==
    IF S = {} THEN << >>
    ELSE LET m == CHOOSE x \in S : \A y \in S : x <= y
         IN  <<m>> \o SeqOfSet(S \ {m})

\* the key shares with positions in S
SharesAt(S) == [k \in 1..Cardinality(S) |-> shares[SeqOfSet(S)[k]]]

IDsOf(ds) == [i \in 1..Len(ds) |-> ds[i].ID]

\* C1: for keys from KeyGen(pBits, qBits, t, n) and a 64-byte message,
\* Recover over the decryption shares of any t+1 distinct key shares returns
\* the message without error, because the combined element
\* prod(share.Value^L_i) mod P is Y^r mod P.
C1_RoundTrip ==
    (pc = "recovered" /\ Len(decShares) = args.t + 1) =>
        /\ err = "nil"
        /\ recovered = msg
        /\ \A r \in 0..(pub.Q - 1) :
              PowMod(pub.G, r, pub.P) = ctxt.R =>
                  Combine(pub, decShares, IDsOf(decShares), 1, 1) = PowMod(pub.Y, r, pub.P)

\* three custodians out of three answered in the order 3, 1, 2 and the
\* padded 'Hello world' came back
C1_Witness ==
    /\ pc = "recovered"
    /\ args.t = 2 /\ Len(decShares) = 3
    /\ IDsOf(decShares) = <<3, 1, 2>>
    /\ priv.X = 3
    /\ shares[1].Value /= shares[2].Value
    /\ msg = HelloWorld64 /\ recovered = HelloWorld64

\* the secrets x for which some run of KeyGen deals the shares at S as dealt
ConsistentSecrets(S) ==
    LET sg == [group |-> [P |-> pub.P, Q |-> pub.Q, G |-> pub.G], err |-> "nil"] IN
    {x \in 0..(pub.Q - 1) :
        \E coeffs \in [1..(args.t - 1) -> 0..(pub.Q - 1)] :
            \A i \in S : KeyGen(sg, x, coeffs, args.t, args.n, TRUE, TRUE).shares[i] = shares[i]}

\* the values the per-message secret Y^r = R^X can take, R = G^r, when X is
\* one of the secrets consistent with the shares at S
ConsistentMessageSecrets(S, r) ==
    {PowMod(PowMod(pub.G, r, pub.P), x, pub.P) : x \in ConsistentSecrets(S)}

\* C2: for keys produced by KeyGen(pBits, qBits, t, n), any set of t or fewer
\* key shares learns nothing about X: every candidate X in [0, Q) is
\* consistent with those shares, so t shares (or the t decryption shares
\* derived from them) do not determine X or the per-message secret Y^r
\* (r /= 0); only t+1 or more do.
C2_SecrecyOfTShares ==
    pc = "keyed" =>
        \A S \in SUBSET (1..args.n) :
            IF Cardinality(S) <= args.t
            THEN /\ ConsistentSecrets(S) = 0..(pub.Q - 1)
                 /\ \A r \in 1..(pub.Q - 1) :
                       Cardinality(ConsistentMessageSecrets(S, r)) > 1
            ELSE /\ ConsistentSecrets(S) = {priv.X}
                 /\ \A r \in 1..(pub.Q - 1) :
                       ConsistentMessageSecrets(S, r) = {PowMod(pub.Y, r, pub.P)}

\* C3: KeyGen(pBits, qBits, t, n) returns exactly n key shares, and direct
\* recovery (interpolation at 0 modulo Q) from any t+1 of them returns
\* PrivateKey.X.
C3_KeyGenShareRoundTrip ==
    pc = "keyed" =>
        /\ Len(shares) = args.n
        /\ \A S \in SUBSET (1..args.n) :
              Cardinality(S) = args.t + 1 =>
                  TOutOfNRecover(SharesAt(S), pub.Q) = priv.X

\* a non-constant sharing of X = 5 among three custodians
C3_Witness ==
    /\ pc = "keyed"
    /\ args.t = 2 /\ args.n = 3
    /\ priv.X = 5
    /\ shares[1].Value /= shares[2].Value
    /\ TOutOfNRecover(SharesAt({1, 2, 3}), pub.Q) = 5

\* Enc has just returned
EncReturned == pc = "enc_failed" \/ (pc = "encrypted" /\ decShares = << >>)

\* C8: Enc returns the invalid-argument error exactly when len(message) /= 64
\* (shorter as well as longer messages), before r is sampled; on success
\* len(Ciphertext.C) = 64.  (A failure of the randomness source can only
\* follow the length check.)
C8_EncLengthCheck ==
    EncReturned =>
        /\ (err = "arg") = (Len(msg) /= 64)
        /\ (err = "arg") => reads = 0
        /\ (err = "nil") => (Len(ctxt.C) = 64 /\ reads = 1)
        /\ (err = "rng") => (Len(msg) = 64 /\ reads = 1)
        /\ err \in {"arg", "nil", "rng"}

\* the unpadded 11-byte 'Hello world' is refused without sampling
C8_Witness ==
    /\ pc = "enc_failed"
    /\ msg = HelloWorld
    /\ err = "arg"
    /\ reads = 0

(***************************************************************************)
(* SpecDec: one call of Dec on arbitrary inputs of bounded size.           *)
(***************************************************************************)
\* key shares have IDs in 1..MaxID and values in 0..MaxShareValue
MaxID == 4
MaxShareValue == 22

\* the toy key of TestDec, a key over the order-7 subgroup modulo 43, and a
\* key whose modulus is no prime
ToyPub == [P |-> 23, Q |-> 11, G |-> 4, Y |-> 16]
DecPubs == {ToyPub, [P |-> 43, Q |-> 7, G |-> 4, Y |-> 21],
            [P |-> 22, Q |-> 11, G |-> 4, Y |-> 16]}

\* the ciphertext bytes of TestDec and TestRecover
ToyC ==
    <<186, 30, 55, 148, 188, 126, 213, 212, 201, 0, 107, 159, 239, 137, 216, 131, 65, 91, 90, 219, 214, 168, 64, 48, 203, 31, 53, 230, 166, 192, 38, 230, 92, 96, 251, 153, 245, 98, 247, 235, 159, 119, 243, 222, 197, 0, 20, 115, 68, 29, 44, 85, 134, 181, 77, 155, 153, 156, 244, 189, 121, 14, 76, 86>>

InitDec ==
    /\ pc = "encrypted"
    /\ args = [op |-> "Dec"]
    /\ pub \in DecPubs
    /\ shares \in {<<[ID |-> id, Value |-> v]>> : id \in 1..MaxID, v \in 0..MaxShareValue}
    /\ ctxt \in {[R |-> rr, C |-> ToyC] : rr \in 0..(pub.P - 1)}
    /\ priv = ZeroPriv /\ msg = << >> /\ decShares = << >> /\ recovered = << >>
    /\ err = "none"
    /\ IdleRandomBits /\ IdleSchnorr

NextDec == DecStep

SpecDec == InitDec /\ [][NextDec]_vars

\* C7: Dec(pub, keyShare, ctxt) returns the share with ID = keyShare.ID and
\* Value = ctxt.R^(keyShare.Value) mod P, key-share values of Q and above
\* included, and leaves pub, keyShare and ctxt as they were; in the toy group
\* P = 23, Q = 11, G = 4 with R = 3, the key shares (1,4), (3,14), (4,22)
\* give (1,12), (3,4), (4,1).
C7_DecValue ==
    (Len(decShares) = 1 /\ ProbablyPrime(pub.P)) =>
        /\ err = "nil"
        /\ decShares[1].ID = shares[1].ID
        /\ decShares[1].Value = PowMod(ctxt.R, shares[1].Value, pub.P)
        /\ (pub = ToyPub /\ ctxt.R = 3) =>
              /\ shares[1] = [ID |-> 1, Value |-> 4]  => decShares[1] = [ID |-> 1, Value |-> 12]
              /\ shares[1] = [ID |-> 3, Value |-> 14] => decShares[1] = [ID |-> 3, Value |-> 4]
              /\ shares[1] = [ID |-> 4, Value |-> 22] => decShares[1] = [ID |-> 4, Value |-> 1]

C7_DecResult ==
    /\ []C7_DecValue
    /\ [][pub' = pub /\ shares' = shares /\ ctxt' = ctxt]_vars

\* the second vector of TestDec: key share (3, 14) gives (3, 4)
C7_Witness ==
    /\ pub = ToyPub /\ ctxt.R = 3
    /\ shares = <<[ID |-> 3, Value |-> 14]>>
    /\ decShares = <<[ID |-> 3, Value |-> 4]>>
    /\ err = "nil"

(***************************************************************************)
(* What comes back alongside an error.                                     *)
(***************************************************************************)
\* C11: whenever RandomBits, GenerateSchnorrGroup, KeyGen, Enc, Dec or Recover
\* returns a non-nil error, the output returned alongside it is the zero value
\* of its type: no allocated byte slice, no P, Q, G, Y or X set, no pre-sized
\* share slice, no ID copied.
C11_ZeroValueOnFailure ==
    /\ (pc = "rb_done" /\ rbRes.err /= "nil") => rbRes.out = << >>
    /\ (pc = "sg_done" /\ sgErr /= "nil") => schnorr = ZeroGroup
    /\ pc = "keygen_failed" => (pub = ZeroPub /\ priv = ZeroPriv /\ shares = << >>)
    /\ pc = "enc_failed" => ctxt = ZeroCtxt
    /\ pc = "dec_failed" => decShares[Len(decShares)] = [ID |-> 0, Value |-> NilInt]
    /\ pc = "recover_failed" => recovered = << >>

(***************************************************************************)
(* SpecRecover: one call of Recover on the decryption shares of any        *)
(* sequence of custodians, short, empty and repeating sequences included.  *)
(***************************************************************************)
\* at most MaxDecShares decryption shares are handed to Recover
MaxDecShares == 3
\* the threshold of the toy sharing: three shares reconstruct X = 2
ToyT == 3
ToyX == 2
\* coefficients of the sharing polynomial; <<1, 1>> is the one of TestDec
ToyCoeffs == [1..(ToyT - 1) -> {0, 1}]

\* the sequences of at most k custodians out of 1..n
RECURSIVE CustodianSeqs(_, _)
CustodianSeqs(n, k) ==
    IF k = 0 THEN {<< >>}
    ELSE CustodianSeqs(n, k - 1) \cup
         {Append(sq, c) : sq \in {p \in CustodianSeqs(n, k - 1) : Len(p) = k - 1},
                          c \in 1..n}

HasDuplicates(sq) == \E i, j \in 1..Len(sq) : i /= j /\ sq[i] = sq[j]

InitRecover ==
    /\ pc = "encrypted"
    /\ pub = ToyPub
    /\ priv = [X |-> ToyX]
    /\ msg = HelloWorld64
    /\ \E coeffs \in ToyCoeffs : shares = TOutOfN(ToyX, ToyT, MaxID, pub.Q, coeffs)
    /\ \E r \in 0..(pub.Q - 1), sq \in CustodianSeqs(MaxID, MaxDecShares) :
         /\ ctxt = Enc(pub, msg, r, TRUE).ctxt
         /\ decShares = [k \in 1..Len(sq) |-> Dec(pub, shares[sq[k]], ctxt).share]
         /\ args \in {[op |-> "Recover", t |-> ToyT, n |-> MaxID, r |-> r, inv0 |-> z] :
                         z \in (IF HasDuplicates(sq) THEN 0..(pub.Q - 1) ELSE {0})}
    /\ recovered = << >> /\ err = "none"
    /\ IdleRandomBits /\ IdleSchnorr

NextRecover == RecoverStep

SpecRecover == InitRecover /\ [][NextRecover]_vars

\* the product of the share values raised to their Lagrange coefficients,
\* each power taken by repeated multiplication
RECURSIVE LagrangeProduct(_, _)
LagrangeProduct(ds, i) ==
    IF i > Len(ds) THEN 1
    ELSE (PowMod(ds[i].Value, BasePolynomial(i, IDsOf(ds), pub.Q), pub.P)
          * LagrangeProduct(ds, i + 1)) % pub.P

\* Recover was handed fewer shares than the threshold or a repeated ID
TooFewOrDuplicate ==
    Len(decShares) < args.t \/ HasDuplicates(IDsOf(decShares))

\* C12 as claimed: Recover validates neither the number of decryption shares
\* nor the distinctness of their IDs; with fewer shares than the threshold
\* (the empty list included) or with duplicate IDs it returns a nil error and
\* the 64 bytes of the same Lagrange combination, which is a wrong message.
C12_PermissiveRecoverWrong ==
    (pc \in {"recovered", "recover_failed"} /\ TooFewOrDuplicate) =>
        /\ err = "nil"
        /\ Len(recovered) = 64
        /\ recovered = XorBytes(ctxt.C, Sum512(Bytes(LagrangeProduct(decShares, 1))))
        /\ recovered /= msg

\* C12 as the code has it: the same, except that the result is the message
\* exactly when the combination equals Y^r, and a wrong message otherwise.
C12_PermissiveRecover ==
    (pc \in {"recovered", "recover_failed"} /\ TooFewOrDuplicate) =>
        /\ err = "nil"
        /\ Len(recovered) = 64
        /\ recovered = XorBytes(ctxt.C, Sum512(Bytes(LagrangeProduct(decShares, 1))))
        /\ (recovered = msg) =
              (LagrangeProduct(decShares, 1) = PowMod(pub.Y, args.r, pub.P))

\* two of the three shares needed, of the sharing 2 + x + x^2, give a wrong
\* message and no error
C12_Witness ==
    /\ pc = "recovered"
    /\ args.t = 3 /\ args.r = 4
    /\ shares[1].Value = 4 /\ shares[3].Value = 3
    /\ IDsOf(decShares) = <<1, 3>>
    /\ err = "nil"
    /\ Len(recovered) = 64 /\ recovered /= msg

(***************************************************************************)
(* Order of the custodians.                                                *)
(***************************************************************************)
\* the decryption shares ds (distinct IDs) in the order of their IDs
SortedByID(ds) ==
    LET ids == SeqOfSet({ds[k].ID : k \in 1..Len(ds)}) IN
    [k \in 1..Len(ds) |-> CHOOSE d \in {ds[i] : i \in 1..Len(ds)} : d.ID = ids[k]]

\* C13: for a fixed public key and ciphertext the custodians' Dec calls may
\* run in any order, each producing the share it would produce alone
\* (ID copied, Value = R^(key share value) mod P, whatever was produced
\* before), and Recover returns the same message for every permutation of
\* the same decryption shares: the Lagrange coefficient of a share depends on
\* its ID and the set of supplied IDs, not on its position.  The custodians
\* answer in every order, so every permutation of a set of shares is compared
\* with the one in the order of the IDs.
C13_OrderIndependence ==
    /\ pc \in {"encrypted", "recovered"} =>
          \A k \in 1..Len(decShares) :
              \E j \in 1..Len(shares) :
                  /\ shares[j].ID = decShares[k].ID
                  /\ decShares[k].Value = PowMod(ctxt.R, shares[j].Value, pub.P)
    /\ pc = "recovered" =>
          LET ds == SortedByID(decShares) IN
          /\ Recover(pub, ds, ctxt) = [msg |-> recovered, err |-> "nil"]
          /\ \A k, j \in 1..Len(ds) :
                ds[j].ID = decShares[k].ID =>
                    BasePolynomial(k, IDsOf(decShares), pub.Q) =
                        BasePolynomial(j, IDsOf(ds), pub.Q)

\* custodian 2 answered before custodian 1 and the message came back
C13_Witness ==
    /\ pc = "recovered"
    /\ args.t = 2
    /\ IDsOf(decShares) = <<2, 1>>
    /\ decShares[1].Value /= decShares[2].Value
    /\ msg = HelloWorld64 /\ recovered = HelloWorld64

(***************************************************************************)
(* SpecSchnorrFair: GenerateSchnorrGroup with a randomness source that     *)
(* never fails and is fair, on arguments with qBits >= 2, pBits-qBits > 2. *)
(***************************************************************************)
FairPBits == 8
FairQBits == 5

InitSchnorrFair ==
    /\ pc = "sg_start"
    /\ args \in {[op |-> "GenerateSchnorrGroup", pBits |-> p, qBits |-> q] :
                    p \in 1..FairPBits, q \in 2..FairQBits}
    /\ args.pBits - args.qBits > 2
    /\ IdleRandomBits /\ IdleSchnorr /\ IdleProtocol

\* the source never fails
SourceWorks == sgErr' /= "rng"

NextSchnorrFair ==
    \/ SG_Begin /\ SourceWorks
    \/ SG_LoopP /\ SourceWorks
    \/ SG_FoundP
    \/ SG_LoopG /\ SourceWorks

\* the iteration of the P loop that draws the R with R*Q + 1 = c, and the
\* iteration of the G loop whose h gives g
DrawR(c) == SG_LoopP /\ SourceWorks /\ schnorr'.P = c
DrawH(g) == SG_LoopG /\ SourceWorks /\ schnorr'.G = g

\* the call keeps running, and every candidate R and h is eventually drawn
FairSource ==
    /\ WF_vars(SG_Begin /\ SourceWorks)
    /\ WF_vars(SG_FoundP)
    /\ \A c \in 1..Pow2(FairPBits) : WF_vars(DrawR(c))
    /\ \A g \in 1..Pow2(FairPBits) : WF_vars(DrawH(g))

SpecSchnorrFair == InitSchnorrFair /\ [][NextSchnorrFair]_vars /\ FairSource

\* C14: for every argument pair with qBits >= 2 and pBits - qBits > 2,
\* GenerateSchnorrGroup eventually returns a group when the randomness source
\* never fails and is fair; rejected candidates are only retried, never
\* reported as errors, and Q is sampled once and kept while P is searched.
C14_Termination ==
    /\ <>SchnorrReturned
    /\ [][(pc = "sg_p" \/ pc = "sg_g") =>
             /\ schnorr'.Q = schnorr.Q
             /\ sgErr' \in {"none", "nil"}]_vars

====
